---------------------------- MODULE Spec2Model ----------------------------
(***************************************************************************)
(* PyMESHub: the graph-to-matrix compiler (GraphEnergyHub.build), the      *)
(* hub configuration loader (EnergyHub.load_config), the system matrix     *)
(* assembler (MatrixBuilder.build_system_matrices), the coupling           *)
(* derivation (SymbolicAnalyzer.derive_coupling_matrix), the numeric       *)
(* evaluator (SymbolicAnalyzer.get_numeric_function) and the constraint    *)
(* system of the economic dispatch (solve_economic_dispatch).              *)
(*                                                                         *)
(* Scalars (sympy expressions) are exact rationals <<n, d>>, d > 0, in     *)
(* lowest terms; a symbolic parameter is a parameter whose value ranges    *)
(* over a set of rationals.  Node, port and type names are strings; a      *)
(* branch name is the sequence of its characters, built by the same        *)
(* concatenation as the code's f-string, and ordered as Python orders      *)
(* str (by code point).  Indices (local port index, branch index) are      *)
(* 0-based as in the code; sequences are 1-based as in TLA+.               *)
(***************************************************************************)
EXTENDS Integers, Sequences, FiniteSets, TLC

\* The sequence with the elements of f, a function on 1..n.
List(f) == f \o <<>>

(***************************************************************************)
(* Exact scalars                                                           *)
(***************************************************************************)
Abs(x) == IF x < 0 THEN -x ELSE x

RECURSIVE GCD(_, _)
GCD(a, b) == IF b = 0 THEN a ELSE GCD(b, a % b)

Rat(n, d) ==
    LET g == GCD(Abs(n), Abs(d))
        s == IF d < 0 THEN -1 ELSE 1
    IN  <<(s * n) \div g, (s * d) \div g>>

RZero == <<0, 1>>
ROne == <<1, 1>>
RAdd(a, b) == Rat(a[1] * b[2] + b[1] * a[2], a[2] * b[2])
RMul(a, b) == Rat(a[1] * b[1], a[2] * b[2])
RNeg(a) == <<-a[1], a[2]>>
RInv(a) == Rat(a[2], a[1])
RDiv(a, b) == RMul(a, RInv(b))

(***************************************************************************)
(* Matrices (sympy.Matrix): rows, cols and the entries row by row.  A      *)
(* matrix may have no rows and still have columns (sympy.zeros(0, B)).     *)
(***************************************************************************)
Matrix(r, c, e) == [rows |-> r, cols |-> c, e |-> e]

\* The value None of a matrix attribute that has not been set.
NoneMatrix == [rows |-> -1, cols |-> -1, e |-> <<>>]

zeros(r, c) == Matrix(r, c, List([i \in 1..r |-> List([j \in 1..c |-> RZero])]))

eye(n) ==
    Matrix(n, n, List([i \in 1..n |-> List([j \in 1..n |-> IF i = j THEN ROne ELSE RZero])]))

MNeg(M) ==
    Matrix(M.rows, M.cols,
           List([i \in 1..M.rows |-> List([j \in 1..M.cols |-> RNeg(M.e[i][j])])]))

\* M[i, j] = v with 0-based i, j.
MSet(M, i, j, v) == [M EXCEPT !.e[i + 1][j + 1] = v]

RECURSIVE RSum(_, _, _)
RSum(f, lo, hi) == IF lo > hi THEN RZero ELSE RAdd(f[lo], RSum(f, lo + 1, hi))

MMul(A, B) ==
    Matrix(A.rows, B.cols,
           List([i \in 1..A.rows |-> List([j \in 1..B.cols |->
               RSum(List([p \in 1..A.cols |-> RMul(A.e[i][p], B.e[p][j])]), 1, A.cols)])]))

\* sympy.Matrix.vstack of two matrices; a matrix without rows stacks with anything.
vstack(A, B) ==
    IF A.rows = 0 THEN B
    ELSE IF B.rows = 0 THEN A
    ELSE Matrix(A.rows + B.rows, A.cols, A.e \o B.e)

RECURSIVE vstackAll(_, _)
vstackAll(blocks, B) ==
    IF blocks = <<>> THEN zeros(0, B)
    ELSE IF Len(blocks) = 1 THEN blocks[1]
    ELSE vstack(blocks[1], vstackAll(Tail(blocks), B))

(***************************************************************************)
(* Exact inversion (sympy Matrix.inv, Gaussian elimination on exact        *)
(* scalars): Gauss-Jordan on the rows of [Q | I].  The result is           *)
(* [ok |-> FALSE] when a column has no pivot (NonInvertibleMatrixError, a  *)
(* ValueError).                                                            *)
(***************************************************************************)
RowScale(row, k) == List([j \in 1..Len(row) |-> RMul(row[j], k)])
RowSub(row, piv, k) == List([j \in 1..Len(row) |-> RAdd(row[j], RNeg(RMul(piv[j], k)))])

RECURSIVE GaussJordan(_, _, _)
GaussJordan(aug, c, n) ==
    IF c > n THEN [ok |-> TRUE, e |-> aug]
    ELSE LET cand == {r \in c..n : aug[r][c] # RZero}
         IN  IF cand = {} THEN [ok |-> FALSE, e |-> aug]
             ELSE LET r    == CHOOSE x \in cand : \A y \in cand : x <= y
                      sw   == [aug EXCEPT ![c] = aug[r], ![r] = aug[c]]
                      piv  == RowScale(sw[c], RInv(sw[c][c]))
                      next == List([i \in 1..n |->
                                 IF i = c THEN piv ELSE RowSub(sw[i], piv, sw[i][c])])
                  IN  GaussJordan(next, c + 1, n)

\* A variant of inv that does not raise: for a matrix without inverse it
\* returns the identity.
inv_never_raising(Q) ==
    LET n   == Q.rows
        aug == List([i \in 1..n |-> Q.e[i] \o eye(n).e[i]])
        gj  == GaussJordan(aug, 1, n)
    IN  IF gj.ok
        THEN [ok |-> TRUE,
              m  |-> Matrix(n, n, List([i \in 1..n |-> SubSeq(gj.e[i], n + 1, n + n)]))]
        ELSE [ok |-> TRUE, m |-> eye(n)]

inv(Q) ==
    LET n   == Q.rows
        aug == List([i \in 1..n |-> Q.e[i] \o eye(n).e[i]])
        gj  == GaussJordan(aug, 1, n)
    IN  IF gj.ok
        THEN [ok |-> TRUE,
              m  |-> Matrix(n, n, List([i \in 1..n |-> SubSeq(gj.e[i], n + 1, n + n)]))]
        ELSE [ok |-> FALSE, m |-> NoneMatrix]

(***************************************************************************)
(* Strings as character sequences, ordered by code point (Python str       *)
(* comparison): digits, then upper case, then "_", then lower case.        *)
(***************************************************************************)
Alphabet ==
    << "0", "1", "2", "3", "4", "5", "6", "7", "8", "9",
       "A", "B", "C", "D", "E", "F", "G", "H", "I", "J", "K", "L", "M",
       "N", "O", "P", "Q", "R", "S", "T", "U", "V", "W", "X", "Y", "Z",
       "_",
       "a", "b", "c", "d", "e", "f", "g", "h", "i", "j", "k", "l", "m",
       "n", "o", "p", "q", "r", "s", "t", "u", "v", "w", "x", "y", "z" >>

ord == [c \in {Alphabet[i] : i \in 1..Len(Alphabet)} |->
           CHOOSE i \in 1..Len(Alphabet) : Alphabet[i] = c]

RECURSIVE StrLess(_, _)
StrLess(a, b) ==
    IF b = <<>> THEN FALSE
    ELSE IF a = <<>> THEN TRUE
    ELSE IF ord[a[1]] # ord[b[1]] THEN ord[a[1]] < ord[b[1]]
    ELSE StrLess(Tail(a), Tail(b))

\* A variant of sorted that leaves the list in the order it has.
unsorted(xs) == xs

\* sorted(xs): Python's sorted on a list of str.
RECURSIVE sorted(_)
sorted(xs) ==
    IF xs = <<>> THEN <<>>
    ELSE LET rest == sorted(Tail(xs))
             k    == Cardinality({i \in 1..Len(rest) : StrLess(rest[i], xs[1])})
         IN  SubSeq(rest, 1, k) \o <<xs[1]>> \o SubSeq(rest, k + 1, Len(rest))

\* The elements of xs without repetition, in order of first occurrence.
RECURSIVE dedup(_)
dedup(xs) ==
    IF xs = <<>> THEN <<>>
    ELSE LET front == dedup(SubSeq(xs, 1, Len(xs) - 1))
             x     == xs[Len(xs)]
         IN  IF \E i \in 1..Len(front) : front[i] = x THEN front ELSE Append(front, x)

Reverse(xs) == List([i \in 1..Len(xs) |-> xs[Len(xs) + 1 - i]])

\* The hash seeds of the interpreter that are told apart: the iteration order
\* of a set of str depends on the seed (PYTHONHASHSEED) and on nothing the
\* program controls.
HashSeeds == {"h0", "h1", "h2"}

\* list(set(xs)) under hash seed h: the distinct elements of xs in an order the
\* program does not control (first-occurrence order, its reverse, a rotation).
list_set(xs, h) ==
    LET d == dedup(xs)
    IN  IF h = "h0" THEN d
        ELSE IF h = "h1" THEN Reverse(d)
        ELSE IF d = <<>> THEN d ELSE Tail(d) \o <<d[1]>>

\* The characters of every name the model uses as a node, port or branch name
\* or as a literal of an f-string.
chars ==
       ("CHP1" :> <<"C", "H", "P", "1">>)
    @@ ("Boiler1" :> <<"B", "o", "i", "l", "e", "r", "1">>)
    @@ ("GasInput" :> <<"G", "a", "s", "I", "n", "p", "u", "t">>)
    @@ ("HeatLoad" :> <<"H", "e", "a", "t", "L", "o", "a", "d">>)
    @@ ("ElecLoad" :> <<"E", "l", "e", "c", "L", "o", "a", "d">>)
    @@ ("C1" :> <<"C", "1">>)
    @@ ("B1" :> <<"B", "1">>)
    @@ ("B2" :> <<"B", "2">>)
    @@ ("S1" :> <<"S", "1">>)
    @@ ("G" :> <<"G">>)
    @@ ("L" :> <<"L">>)
    @@ ("M" :> <<"M">>)
    @@ ("Heat_Load" :> <<"H", "e", "a", "t", "_", "L", "o", "a", "d">>)
    @@ ("fuel_in" :> <<"f", "u", "e", "l", "_", "i", "n">>)
    @@ ("heat_out" :> <<"h", "e", "a", "t", "_", "o", "u", "t">>)
    @@ ("elec_out" :> <<"e", "l", "e", "c", "_", "o", "u", "t">>)
    @@ ("energy_in" :> <<"e", "n", "e", "r", "g", "y", "_", "i", "n">>)
    @@ ("energy_out" :> <<"e", "n", "e", "r", "g", "y", "_", "o", "u", "t">>)
    @@ ("delta_soc" :> <<"d", "e", "l", "t", "a", "_", "s", "o", "c">>)
    @@ ("elec_in" :> <<"e", "l", "e", "c", "_", "i", "n">>)
    @@ ("cool_out" :> <<"c", "o", "o", "l", "_", "o", "u", "t">>)
    @@ ("heat_in" :> <<"h", "e", "a", "t", "_", "i", "n">>)
    @@ ("gas_out" :> <<"g", "a", "s", "_", "o", "u", "t">>)
    @@ ("gas_in" :> <<"g", "a", "s", "_", "i", "n">>)
    @@ ("elec_supply" :> <<"e", "l", "e", "c", "_", "s", "u", "p", "p", "l", "y">>)
    @@ ("heat_supply" :> <<"h", "e", "a", "t", "_", "s", "u", "p", "p", "l", "y">>)
    @@ ("satisfied_demand" :> <<"s", "a", "t", "i", "s", "f", "i", "e", "d", "_", "d", "e", "m", "a", "n", "d">>)
    @@ ("in" :> <<"i", "n">>)
    @@ ("out" :> <<"o", "u", "t">>)
    @@ ("e1" :> <<"e", "1">>)
    @@ ("e2" :> <<"e", "2">>)
    @@ ("B1_heat_out_to_L" :> <<"B", "1", "_", "h", "e", "a", "t", "_", "o", "u", "t", "_", "t", "o", "_", "L">>)
    @@ ("delta_soc_branch" :> <<"d", "e", "l", "t", "a", "_", "s", "o", "c", "_", "b", "r", "a", "n", "c", "h">>)
    @@ ("energy_out_to_L_in" :> <<"e", "n", "e", "r", "g", "y", "_", "o", "u", "t", "_", "t", "o", "_", "L", "_", "i", "n">>)
    @@ ("_" :> <<"_">>)
    @@ ("_to_" :> <<"_", "t", "o", "_">>)
    @@ ("_branch" :> <<"_", "b", "r", "a", "n", "c", "h">>)
    @@ ("a" :> <<"a">>)
    @@ ("b" :> <<"b">>)
    @@ ("c" :> <<"c">>)

(***************************************************************************)
(* dict: insertion-ordered, as a sequence of <<key, value>> pairs with     *)
(* pairwise distinct keys.                                                 *)
(***************************************************************************)
DictHas(d, k) == \E i \in 1..Len(d) : d[i][1] = k
DictGet(d, k) == d[CHOOSE i \in 1..Len(d) : d[i][1] = k][2]
DictKeys(d) == {d[i][1] : i \in 1..Len(d)}

\* d[k] = v: an existing key keeps its place.
DictSet(d, k, v) ==
    IF DictHas(d, k)
    THEN List([i \in 1..Len(d) |-> IF d[i][1] = k THEN <<k, v>> ELSE d[i]])
    ELSE Append(d, <<k, v>>)

(***************************************************************************)
(* Components (components/base.py, converters.py, storage.py)              *)
(***************************************************************************)
\* GraphEnergyHub._component_types: the registered component classes.
_component_types ==
    {"CHPBackPressure", "Boiler", "Storage", "ConvertibleLoad", "ElectricBoiler",
     "HeatPump", "AbsorptionChiller", "Transformer", "PowerToGas"}

\* The keyword parameters the constructor of a class requires.
RequiredParams(cls) ==
    CASE cls = "CHPBackPressure" -> {"eta_q", "eta_w"}
      [] cls = "Storage" -> {"eta_c", "eta_d"}
      [] cls = "ConvertibleLoad" -> {"substitution_ratio"}
      [] cls \in {"HeatPump", "AbsorptionChiller"} -> {"cop"}
      [] OTHER -> {"eta"}

\* Component.add_input_port / add_output_port: ports[port_name] = port_index.
add_input_port(comp, port_name, port_index) ==
    [comp EXCEPT !.input_ports = DictSet(@, port_name, port_index)]

add_output_port(comp, port_name, port_index) ==
    [comp EXCEPT !.output_ports = DictSet(@, port_name, port_index)]

\* Component.__init__ followed by the set_parameter calls of the subclass.
ComponentBase(name, cls, kw) ==
    [name |-> name, cls |-> cls,
     parameters |-> [k \in RequiredParams(cls) |-> kw.p[k]],
     elec_ports |-> <<>>, input_ports |-> <<>>, output_ports |-> <<>>]

\* CHPBackPressure.__init__: the electrical ports, one output port each at
\* local index 2 + i.
RECURSIVE AddElecPorts(_, _, _)
AddElecPorts(comp, ports, i) ==
    IF i >= Len(ports) THEN comp
    ELSE AddElecPorts(add_output_port(comp, ports[i + 1], 2 + i), ports, i + 1)

CHPBackPressure(name, kw) ==
    LET elec == IF kw.elec_ports # <<>> THEN kw.elec_ports ELSE <<"elec_out">>
        c0   == [ComponentBase(name, "CHPBackPressure", kw) EXCEPT !.elec_ports = elec]
        c1   == add_output_port(add_input_port(c0, "fuel_in", 0), "heat_out", 1)
    IN  AddElecPorts(c1, elec, 0)

Storage(name, kw) ==
    add_input_port(
        add_output_port(
            add_input_port(ComponentBase(name, "Storage", kw), "energy_in", 0),
            "energy_out", 1),
        "delta_soc", 2)

ConvertibleLoad(name, kw) ==
    add_output_port(
        add_input_port(
            add_input_port(ComponentBase(name, "ConvertibleLoad", kw), "elec_supply", 0),
            "heat_supply", 1),
        "satisfied_demand", 2)

\* The one-input one-output converters and their port names.
TwoPortIn(cls) ==
    CASE cls = "Boiler" -> "fuel_in"
      [] cls = "AbsorptionChiller" -> "heat_in"
      [] OTHER -> "elec_in"

TwoPortOut(cls) ==
    CASE cls = "AbsorptionChiller" -> "cool_out"
      [] cls = "Transformer" -> "elec_out"
      [] cls = "PowerToGas" -> "gas_out"
      [] OTHER -> "heat_out"

TwoPort(name, cls, kw) ==
    add_output_port(add_input_port(ComponentBase(name, cls, kw), TwoPortIn(cls), 0),
                    TwoPortOut(cls), 1)

\* comp_class(name=name, **params): a missing required parameter, or a keyword
\* the constructor does not take, is a TypeError; the CHP takes any keyword.
NoComponent ==
    [name |-> "", cls |-> "", parameters |-> <<>>, elec_ports |-> <<>>,
     input_ports |-> <<>>, output_ports |-> <<>>]

comp_class(cls, name, kw) ==
    IF ~(RequiredParams(cls) \subseteq DOMAIN kw.p)
       \/ (cls # "CHPBackPressure"
           /\ (DOMAIN kw.p # RequiredParams(cls) \/ kw.elec_ports # <<>>))
    THEN [ok |-> FALSE, comp |-> NoComponent]
    ELSE [ok |-> TRUE,
          comp |-> CASE cls = "CHPBackPressure" -> CHPBackPressure(name, kw)
                     [] cls = "Storage" -> Storage(name, kw)
                     [] cls = "ConvertibleLoad" -> ConvertibleLoad(name, kw)
                     [] OTHER -> TwoPort(name, cls, kw)]

\* get_characteristic_matrix (Hg) of each class.
get_characteristic_matrix(comp) ==
    LET p == comp.parameters
        n == Len(comp.elec_ports)
    IN  CASE comp.cls = "CHPBackPressure" ->
               Matrix(2, 2 + n,
                      << <<p["eta_q"], RNeg(ROne)>> \o List([i \in 1..n |-> RZero]),
                         <<p["eta_w"], RZero>> \o List([i \in 1..n |-> RNeg(ROne)]) >>)
          [] comp.cls = "Storage" ->
               Matrix(1, 3, << <<p["eta_c"], RDiv(RNeg(ROne), p["eta_d"]), RNeg(ROne)>> >>)
          [] comp.cls = "ConvertibleLoad" ->
               Matrix(1, 3, << <<RNeg(ROne), RNeg(p["substitution_ratio"]), ROne>> >>)
          [] comp.cls \in {"HeatPump", "AbsorptionChiller"} ->
               Matrix(1, 2, << <<p["cop"], RNeg(ROne)>> >>)
          [] OTHER ->
               Matrix(1, 2, << <<p["eta"], RNeg(ROne)>> >>)

(***************************************************************************)
(* EnergyHub (core/energy_hub.py)                                          *)
(***************************************************************************)
\* EnergyHub.__init__: no components, no branches, the matrices None.
EnergyHub ==
    [components |-> <<>>,
     global_branches |-> <<>>,
     port_to_global_branch_map |-> <<>>,
     hub_input_branch_indices |-> <<>>,
     hub_output_branch_indices |-> <<>>,
     X_matrix |-> NoneMatrix, Y_matrix |-> NoneMatrix, Z_matrix |-> NoneMatrix]

ComponentNames(comps) == {comps[i].name : i \in 1..Len(comps)}
ComponentNamed(comps, n) == comps[CHOOSE i \in 1..Len(comps) : comps[i].name = n]

\* load_config, step 1: instantiate and add the components one by one; the
\* ones added before a failure stay in the hub.
RECURSIVE LoadComponents(_, _, _, _)
LoadComponents(hub, cfgs, i, component_types) ==
    IF i > Len(cfgs) THEN [hub |-> hub, err |-> ""]
    ELSE IF cfgs[i].type \notin component_types
    THEN [hub |-> hub, err |-> "ValueError"]
    ELSE LET made == comp_class(cfgs[i].type, cfgs[i].name, cfgs[i].params)
         IN  IF ~made.ok THEN [hub |-> hub, err |-> "TypeError"]
             ELSE IF cfgs[i].name \in ComponentNames(hub.components)
             THEN [hub |-> hub, err |-> "ValueError"]
             ELSE LoadComponents([hub EXCEPT !.components = Append(@, made.comp)],
                                 cfgs, i + 1, component_types)

\* {name: i for i, name in enumerate(global_branches)}: the last position of
\* a name, 0-based.
HasBranch(branches, name) == \E i \in 1..Len(branches) : branches[i] = name
branch_name_to_index(branches, name) ==
    (CHOOSE i \in 1..Len(branches) :
        branches[i] = name /\ \A j \in (i + 1)..Len(branches) : branches[j] # name) - 1

\* load_config, step 2: the port mappings, a sequence of <<component, port,
\* branch name>> in the iteration order of the config's dicts.
RECURSIVE LoadPortMappings(_, _, _)
LoadPortMappings(hub, pm, i) ==
    IF i > Len(pm) THEN [hub |-> hub, err |-> ""]
    ELSE IF pm[i][1] \notin ComponentNames(hub.components)
            \/ ~HasBranch(hub.global_branches, pm[i][3])
    THEN [hub |-> hub, err |-> "ValueError"]
    ELSE LoadPortMappings(
            [hub EXCEPT !.port_to_global_branch_map =
                (<<pm[i][1], pm[i][2]>> :> branch_name_to_index(hub.global_branches, pm[i][3])) @@ @],
            pm, i + 1)

\* load_config, step 3: the indices of the named branches, appended.
RECURSIVE BranchIndices(_, _, _, _)
BranchIndices(branches, names, i, acc) ==
    IF i > Len(names) THEN [idx |-> acc, err |-> ""]
    ELSE IF ~HasBranch(branches, names[i]) THEN [idx |-> acc, err |-> "ValueError"]
    ELSE BranchIndices(branches, names, i + 1,
                       Append(acc, branch_name_to_index(branches, names[i])))

\* EnergyHub.load_config: the hub as the call leaves it and the exception
\* raised ("" for none).
load_config(hub, config, component_types) ==
    LET s1 == LoadComponents(hub, config.components, 1, component_types)
        h2 == [s1.hub EXCEPT !.global_branches = config.branches]
        s3 == LoadPortMappings(h2, config.port_mappings, 1)
        s4 == BranchIndices(s3.hub.global_branches, config.hub_inputs, 1,
                            s3.hub.hub_input_branch_indices)
        h4 == [s3.hub EXCEPT !.hub_input_branch_indices = s4.idx]
        s5 == BranchIndices(h4.global_branches, config.hub_outputs, 1,
                            h4.hub_output_branch_indices)
        h5 == [h4 EXCEPT !.hub_output_branch_indices = s5.idx]
    IN  IF s1.err # "" THEN s1
        ELSE IF config.branches = <<>> THEN [hub |-> h2, err |-> "ValueError"]
        ELSE IF s3.err # "" THEN s3
        ELSE IF s4.err # "" THEN [hub |-> h4, err |-> s4.err]
        ELSE [hub |-> h5, err |-> s5.err]

(***************************************************************************)
(* MatrixBuilder (core/matrix_builder.py)                                  *)
(***************************************************************************)
\* port_to_global_branch_map.get((comp_name, port_name)): None when absent.
map_get(hub, comp_name, port_name) ==
    IF <<comp_name, port_name>> \in DOMAIN hub.port_to_global_branch_map
    THEN [some |-> TRUE, v |-> hub.port_to_global_branch_map[<<comp_name, port_name>>]]
    ELSE [some |-> FALSE, v |-> 0]

\* A variant of is_not_None that tests the truth value of the index
\* (`if global_branch_index:`), so that index 0 passes for None.
is_truthy(g) == g.some /\ g.v # 0

\* `global_branch_index is not None`.
is_not_None(g) == g.some

\* A variant of OutputSign that gives an output port the sign of an input port.
OutputSign_positive == ROne

\* The entry of the incidence expansion for an input and for an output port.
InputSign == ROne
OutputSign == RNeg(ROne)

\* One of the two loops over the ports of a component: Ag_global[local index,
\* branch index] = sign, a ValueError at the first port without a binding.
RECURSIVE FillPorts(_, _, _, _, _, _)
FillPorts(Ag, hub, comp_name, ports, i, sign) ==
    IF i > Len(ports) THEN [Ag |-> Ag, err |-> ""]
    ELSE LET g     == map_get(hub, comp_name, ports[i][1])
             local == ports[i][2]
         IN  IF ~is_not_None(g) THEN [Ag |-> Ag, err |-> "ValueError"]
             ELSE IF local >= Ag.rows \/ g.v >= Ag.cols
             THEN [Ag |-> Ag, err |-> "IndexError"]
             ELSE FillPorts(MSet(Ag, local, g.v, sign), hub, comp_name, ports, i + 1, sign)

\* Ag_global of a component: num_comp_ports x B, the input ports first.
Ag_global(hub, comp, B) ==
    LET Hg  == get_characteristic_matrix(comp)
        ins == FillPorts(zeros(Hg.cols, B), hub, comp.name, comp.input_ports, 1, InputSign)
    IN  IF ins.err # "" THEN ins
        ELSE FillPorts(ins.Ag, hub, comp.name, comp.output_ports, 1, OutputSign)

\* A variant of Zg that leaves out the product with Hg.
Zg_unmultiplied(comp, Ag) == Ag

\* Zg = Hg * Ag_global.
Zg(comp, Ag) == MMul(get_characteristic_matrix(comp), Ag)

\* A variant of Z_blocks that puts the block of each component above the
\* blocks of the components before it.
RECURSIVE Z_blocks_prepending(_, _, _, _)
Z_blocks_prepending(hub, i, B, acc) ==
    IF i > Len(hub.components) THEN [blocks |-> acc, err |-> ""]
    ELSE LET ag == Ag_global(hub, hub.components[i], B)
         IN  IF ag.err # "" THEN [blocks |-> acc, err |-> ag.err]
             ELSE Z_blocks_prepending(hub, i + 1, B,
                                      <<Zg(hub.components[i], ag.Ag)>> \o acc)

\* The loop over the hub's components, in the order of hub.components.
RECURSIVE Z_blocks(_, _, _, _)
Z_blocks(hub, i, B, acc) ==
    IF i > Len(hub.components) THEN [blocks |-> acc, err |-> ""]
    ELSE LET ag == Ag_global(hub, hub.components[i], B)
         IN  IF ag.err # "" THEN [blocks |-> acc, err |-> ag.err]
             ELSE Z_blocks(hub, i + 1, B, Append(acc, Zg(hub.components[i], ag.Ag)))

\* A variant of Indicator that puts the 1 of row i at column i.
RECURSIVE Indicator_diagonal(_, _, _)
Indicator_diagonal(M, indices, i) ==
    IF i > Len(indices) THEN [m |-> M, err |-> ""]
    ELSE IF i - 1 >= M.cols THEN [m |-> M, err |-> "IndexError"]
    ELSE Indicator_diagonal(MSet(M, i - 1, i - 1, ROne), indices, i + 1)

\* X and Y: row i has a 1 at the column of the i-th index.
RECURSIVE Indicator(_, _, _)
Indicator(M, indices, i) ==
    IF i > Len(indices) THEN [m |-> M, err |-> ""]
    ELSE IF indices[i] >= M.cols THEN [m |-> M, err |-> "IndexError"]
    ELSE Indicator(MSet(M, i - 1, indices[i], ROne), indices, i + 1)

\* A variant of build_system_matrices that stacks the new Z under the Z the
\* hub already holds.
build_system_matrices_accumulating(hub) ==
    LET B  == Len(hub.global_branches)
        zb == Z_blocks(hub, 1, B, <<>>)
        X  == Indicator(zeros(Len(hub.hub_input_branch_indices), B),
                        hub.hub_input_branch_indices, 1)
        Y  == Indicator(zeros(Len(hub.hub_output_branch_indices), B),
                        hub.hub_output_branch_indices, 1)
        Z  == vstackAll(zb.blocks, B)
    IN  IF B = 0 THEN [hub |-> hub, err |-> "ValueError"]
        ELSE IF zb.err # "" THEN [hub |-> hub, err |-> zb.err]
        ELSE IF X.err # "" THEN [hub |-> hub, err |-> X.err]
        ELSE IF Y.err # "" THEN [hub |-> hub, err |-> Y.err]
        ELSE [hub |-> [hub EXCEPT !.X_matrix = X.m, !.Y_matrix = Y.m,
                                  !.Z_matrix = IF @ = NoneMatrix THEN Z ELSE vstack(@, Z)],
              err |-> ""]

\* MatrixBuilder.build_system_matrices: the matrices are stored in the hub by
\* set_system_matrices, the last statement, and only then.
build_system_matrices(hub) ==
    LET B  == Len(hub.global_branches)
        zb == Z_blocks(hub, 1, B, <<>>)
        X  == Indicator(zeros(Len(hub.hub_input_branch_indices), B),
                        hub.hub_input_branch_indices, 1)
        Y  == Indicator(zeros(Len(hub.hub_output_branch_indices), B),
                        hub.hub_output_branch_indices, 1)
    IN  IF B = 0 THEN [hub |-> hub, err |-> "ValueError"]
        ELSE IF zb.err # "" THEN [hub |-> hub, err |-> zb.err]
        ELSE IF X.err # "" THEN [hub |-> hub, err |-> X.err]
        ELSE IF Y.err # "" THEN [hub |-> hub, err |-> Y.err]
        ELSE [hub |-> [hub EXCEPT !.X_matrix = X.m, !.Y_matrix = Y.m,
                                  !.Z_matrix = vstackAll(zb.blocks, B)],
              err |-> ""]

(***************************************************************************)
(* SymbolicAnalyzer (analysis/symbolic_analyzer.py)                        *)
(***************************************************************************)
\* Q = vstack(X, Z).
Q_matrix(hub) == vstack(hub.X_matrix, hub.Z_matrix)

\* A variant of R_matrix without the minus sign.
R_matrix_positive(hub) ==
    vstack(eye(hub.X_matrix.rows), zeros(hub.Z_matrix.rows, hub.X_matrix.rows))

\* R = vstack(-eye(m), zeros(k, m)).
R_matrix(hub) ==
    vstack(MNeg(eye(hub.X_matrix.rows)), zeros(hub.Z_matrix.rows, hub.X_matrix.rows))

\* `Q.rows != Q.cols`.
not_square(Q) == Q.rows # Q.cols

\* A variant of derive_coupling_matrix that clears the stored C_matrix before
\* it raises.
derive_coupling_matrix_clearing(hub, C_matrix) ==
    LET Q  == vstack(hub.X_matrix, hub.Z_matrix)
        qi == inv(Q)
    IN  IF hub.X_matrix = NoneMatrix \/ hub.Y_matrix = NoneMatrix \/ hub.Z_matrix = NoneMatrix
        THEN [C |-> NoneMatrix, err |-> "ValueError", inverted |-> FALSE]
        ELSE IF Q.rows # Q.cols
        THEN [C |-> NoneMatrix, err |-> "ValueError", inverted |-> FALSE]
        ELSE IF ~qi.ok
        THEN [C |-> NoneMatrix, err |-> "ValueError", inverted |-> TRUE]
        ELSE [C |-> MMul(MMul(MNeg(hub.Y_matrix), qi.m),
                         vstack(MNeg(eye(hub.X_matrix.rows)),
                                zeros(hub.Z_matrix.rows, hub.X_matrix.rows))),
              err |-> "", inverted |-> TRUE]

\* A variant of derive_coupling_matrix without the check that X, Y and Z are
\* set: for a hub without matrices it stores and returns an empty C.
derive_coupling_matrix_unguarded(hub, C_matrix) ==
    LET Q  == Q_matrix(hub)
        qi == inv(Q)
    IN  IF hub.X_matrix = NoneMatrix \/ hub.Y_matrix = NoneMatrix \/ hub.Z_matrix = NoneMatrix
        THEN [C |-> zeros(0, 0), err |-> "", inverted |-> FALSE]
        ELSE IF not_square(Q)
        THEN [C |-> C_matrix, err |-> "ValueError", inverted |-> FALSE]
        ELSE IF ~qi.ok
        THEN [C |-> C_matrix, err |-> "ValueError", inverted |-> TRUE]
        ELSE [C |-> MMul(MMul(MNeg(hub.Y_matrix), qi.m), R_matrix(hub)),
              err |-> "", inverted |-> TRUE]

\* derive_coupling_matrix: the analyzer's C_matrix as the call leaves it, the
\* exception raised ("" for none) and whether Q.inv() was called.
derive_coupling_matrix(hub, C_matrix) ==
    LET Q  == Q_matrix(hub)
        qi == inv(Q)
    IN  IF hub.X_matrix = NoneMatrix \/ hub.Y_matrix = NoneMatrix \/ hub.Z_matrix = NoneMatrix
        THEN [C |-> C_matrix, err |-> "ValueError", inverted |-> FALSE]
        ELSE IF not_square(Q)
        THEN [C |-> C_matrix, err |-> "ValueError", inverted |-> FALSE]
        ELSE IF ~qi.ok
        THEN [C |-> C_matrix, err |-> "ValueError", inverted |-> TRUE]
        ELSE [C |-> MMul(MMul(MNeg(hub.Y_matrix), qi.m), R_matrix(hub)),
              err |-> "", inverted |-> TRUE]

\* A value handed to get_numeric_function is the record of its class and, for
\* a matrix, of its free symbols (a set of Symbol values), for a symbol, of
\* its name.  isinstance(value, sympy.Matrix), isinstance(arg, sympy.Symbol).
isinstance(value, cls) == value.cls = cls

\* None, where an evaluator is expected.
NoneFunction ==
    [callable |-> FALSE, args |-> <<>>, expr |-> [cls |-> "NoneType", free_symbols |-> {}]]

\* sympy.lambdify(args, expr, "numpy") compiles a Python function with one
\* parameter per argument, named after the symbol; Python refuses a function
\* definition that names a parameter twice.
lambdify(args, expr) ==
    IF \E i, j \in 1..Len(args) : i < j /\ args[i] = args[j]
    THEN [func |-> NoneFunction, err |-> "SyntaxError"]
    ELSE [func |-> [callable |-> TRUE, args |-> args, expr |-> expr], err |-> ""]

\* A variant of get_numeric_function that raises for an argument that is not
\* a free symbol of the matrix instead of printing the warning.
get_numeric_function_strict(C_matrix, symbolic_matrix, args) ==
    LET set_args == {args[i] : i \in 1..Len(args)}
        made     == lambdify(args, symbolic_matrix)
        raised(err) == [C |-> C_matrix, numeric_func |-> NoneFunction,
                        err |-> err, printed |-> {}]
    IN  IF ~isinstance(symbolic_matrix, "Matrix") THEN raised("TypeError")
        ELSE IF \E i \in 1..Len(args) : ~isinstance(args[i], "Symbol")
        THEN raised("TypeError")
        ELSE IF ~(set_args \subseteq symbolic_matrix.free_symbols)
        THEN raised("ValueError")
        ELSE [C |-> C_matrix, numeric_func |-> made.func, err |-> made.err, printed |-> {}]

\* SymbolicAnalyzer.get_numeric_function: the analyzer's C_matrix as the call
\* leaves it, the evaluator returned, the exception raised ("" for none) and
\* the symbols named in the warning printed ({} for no warning).
get_numeric_function(C_matrix, symbolic_matrix, args) ==
    LET set_args == {args[i] : i \in 1..Len(args)}
        made     == lambdify(args, symbolic_matrix)
        raised(err) == [C |-> C_matrix, numeric_func |-> NoneFunction,
                        err |-> err, printed |-> {}]
    IN  IF ~isinstance(symbolic_matrix, "Matrix") THEN raised("TypeError")
        ELSE IF \E i \in 1..Len(args) : ~isinstance(args[i], "Symbol")
        THEN raised("TypeError")
        ELSE [C |-> C_matrix, numeric_func |-> made.func, err |-> made.err,
              printed |-> IF set_args \subseteq symbolic_matrix.free_symbols
                          THEN {}
                          ELSE set_args \ symbolic_matrix.free_symbols]

(***************************************************************************)
(* GraphEnergyHub (graph/builder.py).  `self` is the record of its         *)
(* attributes.  The graph is a networkx DiGraph: its nodes in insertion    *)
(* order, and its edges in the order graph.edges iterates them (by source  *)
(* node in node order, then in the order the source's successors were      *)
(* first added); there is at most one edge from a node u to a node v.      *)
(***************************************************************************)
\* GraphEnergyHub.__init__.
GraphEnergyHub ==
    [graph |-> [nodes |-> <<>>, edges |-> <<>>],
     component_instances |-> <<>>,
     component_init_args |-> <<>>,
     io_nodes |-> <<>>]

\* `name in self.graph`, graph.nodes[name].
HasNode(graph, name) == \E i \in 1..Len(graph.nodes) : graph.nodes[i].name = name
NodeIndex(graph, name) == CHOOSE i \in 1..Len(graph.nodes) : graph.nodes[i].name = name
Node(graph, name) == graph.nodes[NodeIndex(graph, name)]

\* graph.add_node(name, **attr) for a name not in the graph.
add_node(graph, name, type, io_type) ==
    [graph EXCEPT !.nodes = Append(@, [name |-> name, type |-> type, io_type |-> io_type])]

\* graph.add_edge(u, v, **attr): the attributes of an existing edge (u, v) are
\* overwritten in place; a new edge comes after the edges of u and of the
\* nodes before u.
add_edge(graph, e) ==
    LET es   == graph.edges
        same == {i \in 1..Len(es) : es[i].u = e.u /\ es[i].v = e.v}
        k    == Cardinality({i \in 1..Len(es) :
                                NodeIndex(graph, es[i].u) <= NodeIndex(graph, e.u)})
    IN  IF same # {}
        THEN [graph EXCEPT !.edges =
                 List([i \in 1..Len(es) |-> IF i \in same THEN e ELSE es[i]])]
        ELSE [graph EXCEPT !.edges = SubSeq(es, 1, k) \o <<e>> \o SubSeq(es, k + 1, Len(es))]

\* GraphEnergyHub.add_component: the builder as the call leaves it and the
\* exception raised ("" for none).  The init args are stored before the
\* component is constructed.
add_component(self, name, component_type, params) ==
    LET made == comp_class(component_type, name, params)
        s1   == [self EXCEPT !.component_init_args = DictSet(@, name, params)]
    IN  IF HasNode(self.graph, name) THEN [self |-> self, err |-> "ValueError"]
        ELSE IF component_type \notin _component_types
        THEN [self |-> self, err |-> "ValueError"]
        ELSE IF ~made.ok THEN [self |-> s1, err |-> "TypeError"]
        ELSE [self |-> [s1 EXCEPT
                          !.component_instances = Append(@, made.comp),
                          !.graph = add_node(@, name, "component", "")],
              err |-> ""]

\* GraphEnergyHub.add_io_node.
add_io_node(self, name, io_type) ==
    IF HasNode(self.graph, name) THEN [self |-> self, err |-> "ValueError"]
    ELSE IF io_type \notin {"input", "output"} THEN [self |-> self, err |-> "ValueError"]
    ELSE [self |-> [self EXCEPT !.graph = add_node(@, name, "io", io_type),
                                !.io_nodes = DictSet(@, name, io_type)],
          err |-> ""]

\* branch_name = f"{from_node}_{from_port}_to_{to_node}_{to_port}".
branch_name(from_node, from_port, to_node, to_port) ==
    chars[from_node] \o chars["_"] \o chars[from_port] \o chars["_to_"]
        \o chars[to_node] \o chars["_"] \o chars[to_port]

\* A variant of connect_rejects that validates the ports of components only
\* and takes any boundary node as source and as destination.
connect_rejects_components_only(self, from_node, from_port, to_node, to_port) ==
    \/ ~HasNode(self.graph, from_node)
    \/ ~HasNode(self.graph, to_node)
    \/ /\ Node(self.graph, from_node).type = "component"
       /\ ~DictHas(ComponentNamed(self.component_instances, from_node).output_ports, from_port)
    \/ /\ Node(self.graph, to_node).type = "component"
       /\ ~DictHas(ComponentNamed(self.component_instances, to_node).input_ports, to_port)

\* The port validation of connect: TRUE when the call raises.
connect_rejects(self, from_node, from_port, to_node, to_port) ==
    \/ ~HasNode(self.graph, from_node)
    \/ ~HasNode(self.graph, to_node)
    \/ /\ Node(self.graph, from_node).type = "component"
       /\ ~DictHas(ComponentNamed(self.component_instances, from_node).output_ports, from_port)
    \/ /\ Node(self.graph, from_node).type = "io"
       /\ DictGet(self.io_nodes, from_node) # "input"
    \/ /\ Node(self.graph, to_node).type = "component"
       /\ ~DictHas(ComponentNamed(self.component_instances, to_node).input_ports, to_port)
    \/ /\ Node(self.graph, to_node).type = "io"
       /\ DictGet(self.io_nodes, to_node) # "output"

\* GraphEnergyHub.connect.
connect(self, from_node, from_port, to_node, to_port) ==
    IF connect_rejects(self, from_node, from_port, to_node, to_port)
    THEN [self |-> self, err |-> "ValueError"]
    ELSE [self |-> [self EXCEPT !.graph =
                       add_edge(@, [u |-> from_node, v |-> to_node,
                                    from_port |-> from_port, to_port |-> to_port,
                                    branch_name |-> branch_name(from_node, from_port,
                                                                to_node, to_port)])],
          err |-> ""]

\* config['port_mappings'][comp][port] = branch on a defaultdict(dict), kept as
\* the sequence of <<comp, port, branch>> in the iteration order of the dicts:
\* a bound port keeps its place and takes the new branch, a new port of a known
\* component comes after that component's ports, a new component comes last.
port_mappings_set(pm, comp, port, branch) ==
    LET same == {i \in 1..Len(pm) : pm[i][1] = comp /\ pm[i][2] = port}
        mine == {i \in 1..Len(pm) : pm[i][1] = comp}
        k    == IF mine = {} THEN Len(pm) ELSE CHOOSE i \in mine : \A j \in mine : j <= i
    IN  IF same # {}
        THEN List([i \in 1..Len(pm) |-> IF i \in same THEN <<comp, port, branch>> ELSE pm[i]])
        ELSE SubSeq(pm, 1, k) \o << <<comp, port, branch>> >> \o SubSeq(pm, k + 1, Len(pm))

\* build(), step 2: one pass of the loop over graph.edges(data=True).
EdgeStep(graph, config, e) ==
    LET c1 == [config EXCEPT !.branches = Append(@, e.branch_name)]
        c2 == IF Node(graph, e.u).type = "component"
              THEN [c1 EXCEPT !.port_mappings =
                                 port_mappings_set(@, e.u, e.from_port, e.branch_name)]
              ELSE c1
        c3 == IF Node(graph, e.v).type = "component"
              THEN [c2 EXCEPT !.port_mappings =
                                 port_mappings_set(@, e.v, e.to_port, e.branch_name)]
              ELSE c2
        c4 == IF Node(graph, e.u).type = "io" /\ Node(graph, e.u).io_type = "input"
              THEN [c3 EXCEPT !.hub_inputs = Append(@, e.branch_name)]
              ELSE c3
    IN  IF Node(graph, e.v).type = "io" /\ Node(graph, e.v).io_type = "output"
        THEN [c4 EXCEPT !.hub_outputs = Append(@, e.branch_name)]
        ELSE c4

RECURSIVE EdgeLoop(_, _, _)
EdgeLoop(graph, config, i) ==
    IF i > Len(graph.edges) THEN config
    ELSE EdgeLoop(graph, EdgeStep(graph, config, graph.edges[i]), i + 1)

\* virtual_branch_name = f"{comp_name}_{virtual_port_name}_branch".
virtual_branch_name(comp_name) ==
    chars[comp_name] \o chars["_"] \o chars["delta_soc"] \o chars["_branch"]

\* isinstance(comp_instance, Storage).
is_Storage(comp) == comp.cls = "Storage"

\* build(): the virtual branch and the binding of the virtual port of every
\* Storage component.
RECURSIVE StorageLoop(_, _, _)
StorageLoop(comps, config, i) ==
    IF i > Len(comps) THEN config
    ELSE IF is_Storage(comps[i])
    THEN StorageLoop(comps,
                     [config EXCEPT
                        !.branches = Append(@, virtual_branch_name(comps[i].name)),
                        !.port_mappings =
                            port_mappings_set(@, comps[i].name, "delta_soc",
                                              virtual_branch_name(comps[i].name))],
                     i + 1)
    ELSE StorageLoop(comps, config, i + 1)

\* The config build() hands to load_config, under hash seed h.
build_config(self, h) ==
    LET c0 == [components |->
                  List([i \in 1..Len(self.component_instances) |->
                      [name   |-> self.component_instances[i].name,
                       type   |-> self.component_instances[i].cls,
                       params |-> DictGet(self.component_init_args,
                                          self.component_instances[i].name)]]),
               branches |-> <<>>, port_mappings |-> <<>>,
               hub_inputs |-> <<>>, hub_outputs |-> <<>>]
        c1 == StorageLoop(self.component_instances, EdgeLoop(self.graph, c0, 1), 1)
    IN  [c1 EXCEPT !.branches = sorted(list_set(@, h)),
                   !.hub_inputs = sorted(list_set(@, h)),
                   !.hub_outputs = sorted(list_set(@, h))]

\* GraphEnergyHub.build: a new EnergyHub, load_config, build_system_matrices.
\* The hub is returned only when neither raises.
build(self, h) ==
    LET loaded == load_config(EnergyHub, build_config(self, h), _component_types)
    IN  IF loaded.err # "" THEN loaded ELSE build_system_matrices(loaded.hub)

(***************************************************************************)
(* Economic dispatch (solvers/optimizer.py).  time_series_data is the      *)
(* record of its keys; its dicts are sequences of <<key, value>> whose     *)
(* keys are names as character sequences; a series has one value per time  *)
(* step, and the time series here have one time step.  Flows are exact     *)
(* scalars (the code converts Z to floats).                                *)
(***************************************************************************)
\* s.split(sep) for a separator that is not empty.
RECURSIVE split_from(_, _, _, _)
split_from(s, sep, i, start) ==
    IF i > Len(s) THEN <<SubSeq(s, start, Len(s))>>
    ELSE IF i + Len(sep) - 1 <= Len(s) /\ SubSeq(s, i, i + Len(sep) - 1) = sep
    THEN <<SubSeq(s, start, i - 1)>> \o split_from(s, sep, i + Len(sep), i + Len(sep))
    ELSE split_from(s, sep, i + 1, start)

split(s, sep) == split_from(s, sep, 1, 1)

\* to_node = branch_name.split('_to_')[1].split('_')[0]
parse_to_node(name) == split(split(name, chars["_to_"])[2], chars["_"])[1]

\* [global_branches[i] for i in indices]
branches_at(hub, indices) ==
    List([k \in 1..Len(indices) |-> hub.global_branches[indices[k] + 1]])

\* output_node_to_branches[to_node].append(branch_name) on a defaultdict(list).
group_append(d, k, v) ==
    IF DictHas(d, k)
    THEN List([i \in 1..Len(d) |-> IF d[i][1] = k THEN <<k, Append(d[i][2], v)>> ELSE d[i]])
    ELSE Append(d, <<k, <<v>> >>)

\* The loop that groups the hub output branches: an IndexError at the first
\* name without '_to_'.
RECURSIVE GroupLoop(_, _, _)
GroupLoop(hub_output_branches, d, i) ==
    IF i > Len(hub_output_branches) THEN [d |-> d, err |-> ""]
    ELSE IF Len(split(hub_output_branches[i], chars["_to_"])) < 2
    THEN [d |-> d, err |-> "IndexError"]
    ELSE GroupLoop(hub_output_branches,
                   group_append(d, parse_to_node(hub_output_branches[i]), hub_output_branches[i]),
                   i + 1)

RLeq(a, b) == a[1] * b[2] <= b[1] * a[2]

RECURSIVE RSumOver(_, _)
RSumOver(V, names) ==
    IF names = <<>> THEN RZero ELSE RAdd(V[names[1]], RSumOver(V, Tail(names)))

\* model.BRANCHES and branch_to_idx.
BRANCHES(hub) == {hub.global_branches[i] : i \in 1..Len(hub.global_branches)}

\* isinstance(comp, Storage) for the components of the hub.
storage_components(hub) ==
    {hub.components[i].name : i \in {k \in 1..Len(hub.components) :
                                        is_Storage(hub.components[k])}}

\* _energy_balance_rule: row i of Z times V is 0.
energy_balance(hub, V) ==
    \A i \in 1..hub.Z_matrix.rows :
        RSumOver([b \in BRANCHES(hub) |->
                     RMul(hub.Z_matrix.e[i][branch_name_to_index(hub.global_branches, b) + 1],
                          V[b])],
                 hub.global_branches) = RZero

\* _load_satisfaction_rule: the flows of the branches grouped under a node
\* sum to at least the load of the node.
load_satisfaction(output_node_to_branches, load_profiles, V) ==
    \A k \in 1..Len(output_node_to_branches) :
        RLeq(DictGet(load_profiles, output_node_to_branches[k][1])[1],
             RSumOver(V, output_node_to_branches[k][2]))

\* _soc_dynamics_rule at t = 0, _soc_min_rule, _soc_max_rule and the domain
\* of E.
soc_rules(hub, storage_params, V) ==
    \A s \in storage_components(hub) :
        LET p == DictGet(storage_params, chars[s])
            E == RAdd(p.E_initial, V[p.delta_soc_branch_name])
        IN  RLeq(RZero, E) /\ RLeq(p.E_min, E) /\ RLeq(E, p.E_max)

\* The values tried for a flow: 0, a load, a load divided by the size of an
\* entry of Z, and the room of a storage.  A system of the hubs below (one
\* converter, its row of Z) that has a solution has one with these values.
FlowValues(hub, time_series_data) ==
    LET loads   == {time_series_data.load_profiles[k][2][1] :
                       k \in 1..Len(time_series_data.load_profiles)}
        entries == {hub.Z_matrix.e[i][j] : i \in 1..hub.Z_matrix.rows,
                                           j \in 1..hub.Z_matrix.cols} \ {RZero}
    IN  {RZero} \cup loads
        \cup {RDiv(l, <<Abs(z[1]), z[2]>>) : l \in loads, z \in entries}
        \cup {RAdd(time_series_data.storage_params[k][2].E_max,
                   RNeg(time_series_data.storage_params[k][2].E_initial)) :
                 k \in 1..Len(time_series_data.storage_params)}

\* The constraints of the model: V in NonNegativeReals, Z V = 0, the load of
\* every output node, the state of charge of every storage.
constraints(hub, output_node_to_branches, time_series_data, V) ==
    /\ \A b \in BRANCHES(hub) : RLeq(RZero, V[b])
    /\ energy_balance(hub, V)
    /\ load_satisfaction(output_node_to_branches, time_series_data.load_profiles, V)
    /\ soc_rules(hub, time_series_data.storage_params, V)

\* solve_economic_dispatch: output_node_to_branches as the call built it, the
\* exception raised ("" for none) and the termination condition of the
\* solver.  With prices that are not negative the cost is bounded below, and
\* glpk ends with optimal exactly when the constraints have a solution.
solve_economic_dispatch(hub, time_series_data) ==
    LET grouped == GroupLoop(branches_at(hub, hub.hub_output_branch_indices), <<>>, 1)
        d       == grouped.d
        raised(err) == [output_node_to_branches |-> d, err |-> err,
                        termination_condition |-> ""]
    IN  IF grouped.err # "" THEN raised(grouped.err)
        ELSE IF \E k \in 1..Len(hub.hub_input_branch_indices) :
                   ~DictHas(time_series_data.input_prices,
                            hub.global_branches[hub.hub_input_branch_indices[k] + 1])
        THEN raised("KeyError")
        ELSE IF \E k \in 1..Len(d) : ~DictHas(time_series_data.load_profiles, d[k][1])
        THEN raised("KeyError")
        ELSE IF \E s \in storage_components(hub) :
                   ~DictHas(time_series_data.storage_params, chars[s])
        THEN raised("KeyError")
        ELSE IF hub.Z_matrix = NoneMatrix THEN raised("AttributeError")
        ELSE IF \E s \in storage_components(hub) :
                   DictGet(time_series_data.storage_params, chars[s]).delta_soc_branch_name
                       \notin BRANCHES(hub)
        THEN raised("KeyError")
        ELSE [output_node_to_branches |-> d, err |-> "",
              termination_condition |->
                  IF \E V \in [BRANCHES(hub) -> FlowValues(hub, time_series_data)] :
                         constraints(hub, d, time_series_data, V)
                  THEN "optimal"
                  ELSE "infeasible"]

\* The caller has no result of solve_economic_dispatch.
NoDispatch == [output_node_to_branches |-> <<>>, termination_condition |-> ""]

(***************************************************************************)
(* The state: one GraphEnergyHub, the EnergyHub the client holds (made by  *)
(* EnergyHub() or returned by build()), the SymbolicAnalyzer of that hub,  *)
(* and the outcome of the last call.  Three history variables record what  *)
(* the properties below speak of: the connections that succeeded, whether  *)
(* the hub is the one build() returned for the builder as it is now, and   *)
(* whether the hub's matrices were assembled from the hub's configuration  *)
(* as it is now.  The caller's variables hold what the last                *)
(* get_numeric_function call returned and printed and what the last        *)
(* solve_economic_dispatch call built and returned.                        *)
(***************************************************************************)
VARIABLES graph, component_instances, component_init_args, io_nodes,
          hub, C_matrix, result, connected, compiled, assembled,
          numeric_func, printed, dispatch

builder_vars == <<graph, component_instances, component_init_args, io_nodes>>
caller_vars == <<numeric_func, printed, dispatch>>
vars == <<graph, component_instances, component_init_args, io_nodes,
          hub, C_matrix, result, connected, compiled, assembled,
          numeric_func, printed, dispatch>>

self ==
    [graph |-> graph, component_instances |-> component_instances,
     component_init_args |-> component_init_args, io_nodes |-> io_nodes]

SetSelf(s) ==
    /\ graph' = s.graph
    /\ component_instances' = s.component_instances
    /\ component_init_args' = s.component_init_args
    /\ io_nodes' = s.io_nodes

\* The outcome of a call: the exception it raised ("" for none) and, for
\* derive_coupling_matrix, whether it called Q.inv().
Result(err) == [err |-> err, inverted |-> FALSE]

Init ==
    /\ graph = GraphEnergyHub.graph
    /\ component_instances = GraphEnergyHub.component_instances
    /\ component_init_args = GraphEnergyHub.component_init_args
    /\ io_nodes = GraphEnergyHub.io_nodes
    /\ hub = EnergyHub
    /\ C_matrix = NoneMatrix
    /\ result = Result("")
    /\ connected = {}
    /\ compiled = FALSE
    /\ assembled = FALSE
    /\ numeric_func = NoneFunction
    /\ printed = {}
    /\ dispatch = NoDispatch

(***************************************************************************)
(* The calls                                                               *)
(***************************************************************************)
\* graph_hub.add_component(name, component_type, **params)
AddComponent(name, component_type, params) ==
    LET r == add_component(self, name, component_type, params)
    IN  /\ SetSelf(r.self)
        /\ result' = Result(r.err)
        /\ compiled' = (compiled /\ r.self = self)
        /\ UNCHANGED <<hub, C_matrix, connected, assembled, caller_vars>>

\* graph_hub.add_io_node(name, io_type)
AddIoNode(name, io_type) ==
    LET r == add_io_node(self, name, io_type)
    IN  /\ SetSelf(r.self)
        /\ result' = Result(r.err)
        /\ compiled' = (compiled /\ r.self = self)
        /\ UNCHANGED <<hub, C_matrix, connected, assembled, caller_vars>>

\* A variant of Connect for a builder that shares its branch list with the hub
\* it returned: a successful connect also appends the branch name to the
\* branch list of the hub the client holds.
Connect_into_hub(from_node, from_port, to_node, to_port) ==
    LET r == connect(self, from_node, from_port, to_node, to_port)
    IN  /\ SetSelf(r.self)
        /\ result' = Result(r.err)
        /\ connected' = IF r.err = ""
                        THEN connected \cup {<<from_node, from_port, to_node, to_port>>}
                        ELSE connected
        /\ compiled' = (compiled /\ r.self = self)
        /\ hub' = IF r.err = ""
                  THEN [hub EXCEPT !.global_branches =
                           Append(@, branch_name(from_node, from_port, to_node, to_port))]
                  ELSE hub
        /\ UNCHANGED <<C_matrix, assembled, caller_vars>>

\* graph_hub.connect(from_node, from_port, to_node, to_port)
Connect(from_node, from_port, to_node, to_port) ==
    LET r == connect(self, from_node, from_port, to_node, to_port)
    IN  /\ SetSelf(r.self)
        /\ result' = Result(r.err)
        /\ connected' = IF r.err = ""
                        THEN connected \cup {<<from_node, from_port, to_node, to_port>>}
                        ELSE connected
        /\ compiled' = (compiled /\ r.self = self)
        /\ UNCHANGED <<hub, C_matrix, assembled, caller_vars>>

\* A variant of Build for a build() that takes the edges out of the graph as
\* it compiles them: when it raises, the graph is left without edges.
Build_consuming_edges(h) ==
    LET r == build(self, h)
    IN  /\ result' = Result(r.err)
        /\ IF r.err = ""
           THEN /\ hub' = r.hub
                /\ C_matrix' = NoneMatrix
                /\ compiled' = TRUE
                /\ assembled' = TRUE
                /\ graph' = graph
           ELSE /\ graph' = [graph EXCEPT !.edges = <<>>]
                /\ UNCHANGED <<hub, C_matrix, compiled, assembled>>
        /\ UNCHANGED <<component_instances, component_init_args, io_nodes, connected,
                       caller_vars>>

\* hub = graph_hub.build(); analyzer = SymbolicAnalyzer(hub).  When build()
\* raises, the client keeps the hub and the analyzer it had.
Build(h) ==
    LET r == build(self, h)
    IN  /\ result' = Result(r.err)
        /\ IF r.err = ""
           THEN /\ hub' = r.hub
                /\ C_matrix' = NoneMatrix
                /\ compiled' = TRUE
                /\ assembled' = TRUE
           ELSE UNCHANGED <<hub, C_matrix, compiled, assembled>>
        /\ UNCHANGED <<builder_vars, connected, caller_vars>>

\* hub = EnergyHub(); analyzer = SymbolicAnalyzer(hub)
NewHub ==
    /\ hub' = EnergyHub
    /\ C_matrix' = NoneMatrix
    /\ result' = Result("")
    /\ compiled' = FALSE
    /\ assembled' = FALSE
    /\ UNCHANGED <<builder_vars, connected, caller_vars>>

\* hub.load_config(config, component_types)
LoadConfig(config, component_types) ==
    LET r == load_config(hub, config, component_types)
    IN  /\ hub' = r.hub
        /\ result' = Result(r.err)
        /\ compiled' = FALSE
        /\ assembled' = (assembled /\ r.hub = hub)
        /\ UNCHANGED <<builder_vars, C_matrix, connected, caller_vars>>

\* MatrixBuilder(hub).build_system_matrices()
BuildSystemMatrices ==
    LET r == build_system_matrices(hub)
    IN  /\ hub' = r.hub
        /\ result' = Result(r.err)
        /\ assembled' = (assembled \/ r.err = "")
        /\ UNCHANGED <<builder_vars, C_matrix, connected, compiled, caller_vars>>

\* analyzer.derive_coupling_matrix()
DeriveCouplingMatrix ==
    LET r == derive_coupling_matrix(hub, C_matrix)
    IN  /\ C_matrix' = r.C
        /\ result' = [err |-> r.err, inverted |-> r.inverted]
        /\ UNCHANGED <<builder_vars, hub, connected, compiled, assembled, caller_vars>>

\* numeric_func = analyzer.get_numeric_function(symbolic_matrix, args)
GetNumericFunction(symbolic_matrix, args) ==
    LET r == get_numeric_function(C_matrix, symbolic_matrix, args)
    IN  /\ C_matrix' = r.C
        /\ result' = Result(r.err)
        /\ numeric_func' = r.numeric_func
        /\ printed' = r.printed
        /\ UNCHANGED <<builder_vars, hub, connected, compiled, assembled, dispatch>>

\* results = solve_economic_dispatch(hub, time_series_data)
SolveEconomicDispatch(time_series_data) ==
    LET r == solve_economic_dispatch(hub, time_series_data)
    IN  /\ result' = Result(r.err)
        /\ dispatch' = [output_node_to_branches |-> r.output_node_to_branches,
                        termination_condition |-> r.termination_condition]
        /\ UNCHANGED <<builder_vars, hub, C_matrix, connected, compiled, assembled,
                       numeric_func, printed>>

(***************************************************************************)
(* The two-converter scenario (examples/01_build_with_graph.py and         *)
(* examples/02_symbolic_derivation.py): a client that makes the calls of   *)
(* the example in any order, with the numeric efficiencies of the first    *)
(* example or other values of the symbols of the second, and may also      *)
(* connect CHP1.elec_out to HeatLoad or HeatLoad to CHP1.                  *)
(***************************************************************************)
kwargs(p, elec_ports) == [p |-> p, elec_ports |-> elec_ports]

ScenarioComponents ==
    {<<"CHP1", "CHPBackPressure", kwargs([eta_q |-> e[1], eta_w |-> e[2]], <<>>)>> :
        e \in {<<Rat(4, 5), Rat(3, 10)>>, <<Rat(1, 2), Rat(1, 3)>>}}
    \cup
    {<<"Boiler1", "Boiler", kwargs([eta |-> e], <<>>)>> : e \in {Rat(9, 10), Rat(2, 1)}}

ScenarioIoNodes ==
    {<<"GasInput", "input">>, <<"HeatLoad", "output">>, <<"ElecLoad", "output">>}

ScenarioConnections ==
    {<<"GasInput", "out", "CHP1", "fuel_in">>,
     <<"CHP1", "heat_out", "HeatLoad", "in">>,
     <<"CHP1", "elec_out", "ElecLoad", "in">>,
     <<"GasInput", "out", "Boiler1", "fuel_in">>,
     <<"Boiler1", "heat_out", "HeatLoad", "in">>}

ScenarioOtherConnections ==
    {<<"CHP1", "elec_out", "HeatLoad", "in">>,
     <<"HeatLoad", "out", "CHP1", "fuel_in">>}

\* The order of the example: the components (either first), then the input
\* node, then the two output nodes.  A name already in the graph may be added
\* again at any time (the call fails).
ScenarioNodeOrder == <<"GasInput", "HeatLoad", "ElecLoad">>

ScenarioMayAdd(name) ==
    \/ HasNode(graph, name)
    \/ /\ name \in {"CHP1", "Boiler1"}
       /\ io_nodes = <<>>
    \/ /\ Len(component_instances) = 2
       /\ Len(io_nodes) < Len(ScenarioNodeOrder)
       /\ name = ScenarioNodeOrder[Len(io_nodes) + 1]

NextScenario ==
    \/ \E c \in ScenarioComponents : ScenarioMayAdd(c[1]) /\ AddComponent(c[1], c[2], c[3])
    \/ \E n \in ScenarioIoNodes : ScenarioMayAdd(n[1]) /\ AddIoNode(n[1], n[2])
    \/ \E e \in ScenarioConnections \cup ScenarioOtherConnections :
          Connect(e[1], e[2], e[3], e[4])
    \/ \E h \in HashSeeds : Build(h)
    \/ DeriveCouplingMatrix

SpecScenario == Init /\ [][NextScenario]_vars

(***************************************************************************)
(* The general client.  It either builds a graph (add_component,           *)
(* add_io_node, connect, build) over the names B1 (a boiler), S1 (a        *)
(* storage), G (an input node) and L (an output node), with at most        *)
(* MaxNodes nodes and MaxConnects different successful connections, or     *)
(* configures an EnergyHub directly (load_config with a hand-written       *)
(* config, build_system_matrices) with index lists of at most MaxIndices   *)
(* entries, and derives the coupling matrix of the hub it holds.           *)
(***************************************************************************)
MaxNodes == 2
MaxConnects == 2
MaxIndices == 2

Components ==
    {<<"B1", "Boiler", kwargs([eta |-> Rat(9, 10)], <<>>)>>,
     <<"S1", "Storage", kwargs([eta_c |-> Rat(9, 10), eta_d |-> Rat(4, 5)], <<>>)>>,
     <<"S1", "Storage", kwargs([eta_c |-> Rat(9, 10)], <<>>)>>,
     <<"B1", "Furnace", kwargs([eta |-> Rat(9, 10)], <<>>)>>}

IoNodes ==
    {<<"G", "input">>, <<"L", "output">>, <<"G", "both">>}

ComponentNodeNames == {"B1", "S1"}
IoNodeNames == {"G", "L"}

\* The connect calls: any two nodes, any of these port names on a component,
\* the generic port names on an input or output node.
Connections ==
    {c \in (ComponentNodeNames \cup IoNodeNames)
             \X {"heat_out", "energy_out", "fuel_in", "out"}
             \X (ComponentNodeNames \cup IoNodeNames)
             \X {"fuel_in", "energy_in", "delta_soc", "in"} :
        /\ c[1] \in IoNodeNames <=> c[2] = "out"
        /\ c[3] \in IoNodeNames <=> c[4] = "in"}

\* The hand-written configs, over the branches a, b, c: a boiler B1 fully
\* bound, bound in part, bound to an unknown branch, of an unknown type; a CHP
\* C1 whose two electrical ports were given the same name; and configs without
\* components that replace the branch list.
Config(components, branches, port_mappings, hub_inputs, hub_outputs) ==
    [components |-> components, branches |-> branches, port_mappings |-> port_mappings,
     hub_inputs |-> hub_inputs, hub_outputs |-> hub_outputs]

ConfigBoiler(type) ==
    <<[name |-> "B1", type |-> type, params |-> kwargs([eta |-> Rat(9, 10)], <<>>)]>>

ConfigCHP ==
    <<[name |-> "C1", type |-> "CHPBackPressure",
       params |-> kwargs([eta_q |-> Rat(4, 5), eta_w |-> Rat(3, 10)], <<"e1", "e1">>)]>>

Configs ==
    LET a == chars["a"]
        b == chars["b"]
        c == chars["c"]
    IN  {Config(ConfigBoiler("Boiler"), <<a, b>>,
                << <<"B1", "fuel_in", a>>, <<"B1", "heat_out", b>> >>, <<a>>, <<b>>),
         Config(ConfigBoiler("Boiler"), <<a, b>>,
                << <<"B1", "heat_out", a>>, <<"B1", "fuel_in", b>> >>, <<b>>, <<a>>),
         Config(ConfigBoiler("Boiler"), <<a, b, c>>,
                << <<"B1", "fuel_in", a>>, <<"B1", "heat_out", c>> >>, <<a>>, <<c>>),
         Config(ConfigBoiler("Boiler"), <<a, b>>,
                << <<"B1", "heat_out", a>> >>, <<>>, <<a>>),
         Config(ConfigBoiler("Boiler"), <<a, b>>,
                << <<"B1", "fuel_in", a>> >>, <<a>>, <<>>),
         Config(ConfigBoiler("Boiler"), <<a>>,
                << <<"B1", "fuel_in", a>>, <<"B1", "heat_out", b>> >>, <<a>>, <<>>),
         Config(ConfigBoiler("Boiler"), <<>>, <<>>, <<>>, <<>>),
         Config(ConfigBoiler("Furnace"), <<a, b>>, <<>>, <<a>>, <<b>>),
         Config(ConfigCHP, <<a, b, c>>,
                << <<"C1", "fuel_in", a>>, <<"C1", "heat_out", b>>, <<"C1", "e1", c>> >>,
                <<a>>, <<b, c>>),
         Config(<<>>, <<a, b, c>>, <<>>, <<>>, <<c>>),
         Config(<<>>, <<a>>, <<>>, <<>>, <<>>),
         Config(<<>>, <<b, a>>, <<>>, <<>>, <<c>>)}

\* The client of the graph builder holds no hand-configured hub, and the
\* client that configures a hub by hand has not touched the graph builder.
GraphClient == graph.nodes # <<>> \/ hub = EnergyHub
DirectClient == graph.nodes = <<>> /\ component_init_args = <<>>

Next ==
    \/ \E c \in Components :
          /\ GraphClient
          /\ HasNode(graph, c[1]) \/ Len(graph.nodes) < MaxNodes
          /\ AddComponent(c[1], c[2], c[3])
    \/ \E n \in IoNodes :
          /\ GraphClient
          /\ HasNode(graph, n[1]) \/ Len(graph.nodes) < MaxNodes
          /\ AddIoNode(n[1], n[2])
    \/ \E c \in Connections :
          /\ connect(self, c[1], c[2], c[3], c[4]).err = ""
                => Cardinality(connected \cup {c}) <= MaxConnects
          /\ Connect(c[1], c[2], c[3], c[4])
    \/ \E h \in HashSeeds : Build(h)
    \/ DirectClient /\ NewHub
    \/ \E config \in Configs :
          /\ DirectClient
          /\ Len(hub.hub_input_branch_indices) + Len(config.hub_inputs) <= MaxIndices
          /\ Len(hub.hub_output_branch_indices) + Len(config.hub_outputs) <= MaxIndices
          /\ LoadConfig(config, _component_types)
    \/ BuildSystemMatrices
    \/ DeriveCouplingMatrix

Spec == Init /\ [][Next]_vars

(***************************************************************************)
(* A client whose names contain underscores: a boiler B1, a storage named  *)
(* B1_heat_out_to_L, an input node G and an output node L whose port the   *)
(* client calls in, delta_soc_branch or energy_out_to_L_in (connect checks *)
(* the port names of components only).  The components are added first,    *)
(* then G, then L.                                                         *)
(***************************************************************************)
NamesComponents ==
    {<<"B1", "Boiler", kwargs([eta |-> Rat(9, 10)], <<>>)>>,
     <<"B1_heat_out_to_L", "Storage",
       kwargs([eta_c |-> Rat(9, 10), eta_d |-> Rat(4, 5)], <<>>)>>}

NamesIoNodes == {<<"G", "input">>, <<"L", "output">>}

NamesConnections ==
    {<<"G", "out", "B1", "fuel_in">>,
     <<"G", "out", "B1_heat_out_to_L", "energy_in">>,
     <<"B1_heat_out_to_L", "energy_out", "L", "in">>,
     <<"B1", "heat_out", "L", "in">>,
     <<"B1", "heat_out", "L", "delta_soc_branch">>,
     <<"B1", "heat_out", "L", "energy_out_to_L_in">>}

NamesNodeOrder == <<"G", "L">>

NamesMayAdd(name) ==
    \/ HasNode(graph, name)
    \/ /\ name \in {"B1", "B1_heat_out_to_L"}
       /\ io_nodes = <<>>
    \/ /\ Len(component_instances) = 2
       /\ Len(io_nodes) < Len(NamesNodeOrder)
       /\ name = NamesNodeOrder[Len(io_nodes) + 1]

NextNames ==
    \/ \E c \in NamesComponents : NamesMayAdd(c[1]) /\ AddComponent(c[1], c[2], c[3])
    \/ \E n \in NamesIoNodes : NamesMayAdd(n[1]) /\ AddIoNode(n[1], n[2])
    \/ \E e \in NamesConnections : Connect(e[1], e[2], e[3], e[4])
    \/ \E h \in HashSeeds : Build(h)
    \/ DeriveCouplingMatrix

SpecNames == Init /\ [][NextNames]_vars

(***************************************************************************)
(* A client that configures hubs by hand only (as                          *)
(* tests/test_matrix_builder.py and examples/01_simple_numeric.py do): the *)
(* one-CHP system of the test on the branches gas_in, heat_out, elec_out,  *)
(* with the efficiencies of the test or other values of its symbols, and   *)
(* systems of boilers on the branches a, b, c: a boiler between a hub      *)
(* input and a hub output, two boilers in a chain a -> B1 -> b -> B2 -> c  *)
(* with B2 registered first or with B1 registered first and other          *)
(* efficiencies, two boilers in parallel on the same two                   *)
(* branches, a boiler with both ports on one branch, and configs without   *)
(* components that name branch a as hub input (and, in one of them, as     *)
(* hub output too).                                                        *)
(***************************************************************************)
ConfigTestCHP(eta_q, eta_w) ==
    Config(<<[name |-> "CHP1", type |-> "CHPBackPressure",
              params |-> kwargs([eta_q |-> eta_q, eta_w |-> eta_w], <<"elec_out">>)]>>,
           <<chars["gas_in"], chars["heat_out"], chars["elec_out"]>>,
           << <<"CHP1", "fuel_in", chars["gas_in"]>>,
              <<"CHP1", "heat_out", chars["heat_out"]>>,
              <<"CHP1", "elec_out", chars["elec_out"]>> >>,
           <<chars["gas_in"]>>,
           <<chars["heat_out"], chars["elec_out"]>>)

ConfigBoilerNamed(name, eta) ==
    [name |-> name, type |-> "Boiler", params |-> kwargs([eta |-> eta], <<>>)]

DirectConfigs ==
    LET a == chars["a"]
        b == chars["b"]
        c == chars["c"]
    IN  {ConfigTestCHP(Rat(4, 5), Rat(3, 10)),
         ConfigTestCHP(Rat(1, 2), Rat(1, 3)),
         Config(<<ConfigBoilerNamed("B1", Rat(9, 10))>>, <<a, b>>,
                << <<"B1", "fuel_in", a>>, <<"B1", "heat_out", b>> >>, <<a>>, <<b>>),
         Config(<<ConfigBoilerNamed("B2", Rat(1, 2)), ConfigBoilerNamed("B1", Rat(9, 10))>>,
                <<a, b, c>>,
                << <<"B2", "fuel_in", b>>, <<"B2", "heat_out", c>>,
                   <<"B1", "fuel_in", a>>, <<"B1", "heat_out", b>> >>,
                <<a>>, <<c>>),
         Config(<<ConfigBoilerNamed("B1", Rat(2, 1)), ConfigBoilerNamed("B2", Rat(1, 3))>>,
                <<a, b, c>>,
                << <<"B1", "fuel_in", a>>, <<"B1", "heat_out", b>>,
                   <<"B2", "fuel_in", b>>, <<"B2", "heat_out", c>> >>,
                <<a>>, <<c>>),
         Config(<<ConfigBoilerNamed("B1", Rat(9, 10)), ConfigBoilerNamed("B2", Rat(9, 10))>>,
                <<a, b>>,
                << <<"B1", "fuel_in", a>>, <<"B1", "heat_out", b>>,
                   <<"B2", "fuel_in", a>>, <<"B2", "heat_out", b>> >>,
                <<>>, <<b>>),
         Config(<<ConfigBoilerNamed("B1", Rat(9, 10))>>, <<a, b>>,
                << <<"B1", "fuel_in", a>>, <<"B1", "heat_out", a>> >>, <<b>>, <<a>>),
         Config(<<>>, <<a>>, <<>>, <<a>>, <<a>>),
         Config(<<>>, <<a, b>>, <<>>, <<a>>, <<>>)}

NextDirect ==
    \/ NewHub
    \/ \E config \in DirectConfigs :
          /\ Len(hub.hub_input_branch_indices) + Len(config.hub_inputs) <= MaxIndices
          /\ Len(hub.hub_output_branch_indices) + Len(config.hub_outputs) <= MaxIndices
          /\ LoadConfig(config, _component_types)
    \/ BuildSystemMatrices
    \/ DeriveCouplingMatrix

SpecDirect == Init /\ [][NextDirect]_vars

(***************************************************************************)
(* A client of the analyzer that configures a new hub with the one-CHP     *)
(* system of the test, assembles its matrices, derives C and asks for      *)
(* numeric evaluators (as examples/02_symbolic_derivation.py does): of a   *)
(* matrix in the symbol eta_boiler, of a matrix without symbols, or of a   *)
(* list that is not a matrix, with at most MaxArgs arguments, each the     *)
(* symbol eta_boiler, the symbol eta_q_chp or the float 0.9.               *)
(***************************************************************************)
MaxArgs == 2

Symbol(name) == [cls |-> "Symbol", name |-> name]

SymbolicMatrices ==
    {[cls |-> "Matrix", free_symbols |-> {Symbol("eta_boiler")}],
     [cls |-> "Matrix", free_symbols |-> {}],
     [cls |-> "list", free_symbols |-> {}]}

ArgLists ==
    UNION {[1..n -> {Symbol("eta_boiler"), Symbol("eta_q_chp"),
                     [cls |-> "float", name |-> "0.9"]}] : n \in 0..MaxArgs}

NextNumeric ==
    \/ NewHub
    \/ \E e \in {<<Rat(4, 5), Rat(3, 10)>>, <<Rat(1, 2), Rat(1, 3)>>} :
          /\ hub = EnergyHub
          /\ LoadConfig(ConfigTestCHP(e[1], e[2]), _component_types)
    \/ BuildSystemMatrices
    \/ DeriveCouplingMatrix
    \/ \E symbolic_matrix \in SymbolicMatrices, args \in ArgLists :
          GetNumericFunction(symbolic_matrix, args)

SpecNumeric == Init /\ [][NextNumeric]_vars

(***************************************************************************)
(* A client that builds a hub of one boiler and dispatches it (as          *)
(* examples/03_optimization_with_storage.py does for its hub): the boiler  *)
(* B1, the input node G and the output nodes L and Heat_Load, added in     *)
(* this order, the connections G -> B1, B1 -> L and B1 -> Heat_Load, and   *)
(* time series of one step with the same load at both output nodes and the *)
(* price 1 of the input branch.                                            *)
(***************************************************************************)
DispatchComponents ==
    {<<"B1", "Boiler", kwargs([eta |-> e], <<>>)>> : e \in {Rat(9, 10), Rat(2, 1)}}

DispatchIoNodes == {<<"G", "input">>, <<"L", "output">>, <<"Heat_Load", "output">>}

DispatchConnections ==
    {<<"G", "out", "B1", "fuel_in">>,
     <<"B1", "heat_out", "L", "in">>,
     <<"B1", "heat_out", "Heat_Load", "in">>}

DispatchNodeOrder == <<"G", "L", "Heat_Load">>

DispatchMayAdd(name) ==
    \/ HasNode(graph, name)
    \/ /\ name = "B1"
       /\ io_nodes = <<>>
    \/ /\ Len(component_instances) = 1
       /\ Len(io_nodes) < Len(DispatchNodeOrder)
       /\ name = DispatchNodeOrder[Len(io_nodes) + 1]

DispatchData ==
    {[time_steps |-> 1,
      load_profiles |-> << <<chars["L"], <<load>> >>, <<chars["Heat_Load"], <<load>> >> >>,
      input_prices |-> << <<branch_name("G", "out", "B1", "fuel_in"), <<ROne>> >> >>,
      storage_params |-> <<>>] : load \in {Rat(1, 1), Rat(5, 2)}}

NextDispatch ==
    \/ \E c \in DispatchComponents : DispatchMayAdd(c[1]) /\ AddComponent(c[1], c[2], c[3])
    \/ \E n \in DispatchIoNodes : DispatchMayAdd(n[1]) /\ AddIoNode(n[1], n[2])
    \/ \E e \in DispatchConnections : Connect(e[1], e[2], e[3], e[4])
    \/ \E h \in HashSeeds : Build(h)
    \/ \E time_series_data \in DispatchData : SolveEconomicDispatch(time_series_data)

SpecDispatch == Init /\ [][NextDispatch]_vars

(***************************************************************************)
(* Properties                                                              *)
(***************************************************************************)
\* The matrix whose entries are the given numbers of tenths.
Tenths(t) ==
    Matrix(Len(t), Len(t[1]),
           List([i \in 1..Len(t) |-> List([j \in 1..Len(t[1]) |-> Rat(t[i][j], 10)])]))

\* The hub the client holds is the one build() returned for the five
\* connections of the two-converter scenario and its three boundary nodes.
ScenarioTopology ==
    /\ compiled
    /\ ComponentNames(component_instances) = {"CHP1", "Boiler1"}
    /\ DictKeys(io_nodes) = {"GasInput", "HeatLoad", "ElecLoad"}
    /\ connected = ScenarioConnections

\* ... with CHP1 registered before Boiler1 and the numeric efficiencies.
ScenarioNumeric ==
    /\ ScenarioTopology
    /\ component_instances[1].name = "CHP1"
    /\ component_instances[1].parameters = [eta_q |-> Rat(8, 10), eta_w |-> Rat(3, 10)]
    /\ component_instances[2].parameters = [eta |-> Rat(9, 10)]

\* C1: for the two-converter scenario (CHP1 with eta_q = 0.8, eta_w = 0.3,
\* then Boiler1 with eta = 0.9, GasInput, HeatLoad, ElecLoad and the five
\* connections, made in any order), build() yields exactly 5 branches in
\* lexicographic order, X = [[0,0,0,1,0],[0,0,0,0,1]],
\* Y = [[1,0,0,0,0],[0,1,0,0,0],[0,0,1,0,0]] and
\* Z = [[0,0,1,0,0.8],[0,1,0,0,0.3],[1,0,0,0.9,0]].
C1_TwoConverterMatrices ==
    ScenarioNumeric =>
        /\ Len(hub.global_branches) = 5
        /\ \A i \in 1..4 : StrLess(hub.global_branches[i], hub.global_branches[i + 1])
        /\ hub.X_matrix = Tenths(<< <<0, 0, 0, 10, 0>>, <<0, 0, 0, 0, 10>> >>)
        /\ hub.Y_matrix = Tenths(<< <<10, 0, 0, 0, 0>>, <<0, 10, 0, 0, 0>>,
                                    <<0, 0, 10, 0, 0>> >>)
        /\ hub.Z_matrix = Tenths(<< <<0, 0, 10, 0, 8>>, <<0, 10, 0, 0, 3>>,
                                    <<10, 0, 0, 9, 0>> >>)

C1_ScenarioBuilt ==
    /\ ScenarioNumeric
    /\ result.err = ""
    /\ hub.Z_matrix.rows = 3

\* C2: build() called again on the same GraphEnergyHub, under any hash seed,
\* returns a hub equal to the one it returned before (branch list, port map,
\* index lists, X, Y, Z), and build_system_matrices run again on an assembled
\* hub leaves every field of the hub as it was.
C2_Deterministic ==
    /\ compiled => \A h \in HashSeeds : build(self, h) = [hub |-> hub, err |-> ""]
    /\ assembled => build_system_matrices(hub) = [hub |-> hub, err |-> ""]

C2_BuiltWithSeveralBranches ==
    /\ compiled
    /\ assembled
    /\ result.err = ""
    /\ Len(hub.global_branches) >= 3
    /\ hub.Z_matrix.rows >= 2

\* C3: after build(), every (source node, source port, destination node,
\* destination port) a successful connect call was made with is the name of
\* exactly one compiled branch, and different connections have different
\* branches.
C3_OneBranchPerConnection ==
    compiled =>
        /\ \A c \in connected :
              Cardinality({i \in 1..Len(hub.global_branches) :
                  hub.global_branches[i] = branch_name(c[1], c[2], c[3], c[4])}) = 1
        /\ \A c, d \in connected :
              c # d => branch_name(c[1], c[2], c[3], c[4]) # branch_name(d[1], d[2], d[3], d[4])

\* C4: after build(), for every edge of the graph and each of its ends that
\* is a component, the port map binds (component, port of that end) to the
\* index of the edge's branch.
C4_EveryEdgeBound ==
    compiled =>
        \A i \in 1..Len(graph.edges) :
            LET e   == graph.edges[i]
                idx == [some |-> TRUE,
                        v |-> branch_name_to_index(hub.global_branches, e.branch_name)]
            IN  /\ Node(graph, e.u).type = "component" => map_get(hub, e.u, e.from_port) = idx
                /\ Node(graph, e.v).type = "component" => map_get(hub, e.v, e.to_port) = idx

\* C5: after build(), every Storage S has its branch S_delta_soc_branch in the
\* branch list, (S, delta_soc) is bound to the index of that branch, the index
\* is neither a hub input nor a hub output, and the branch is one more than
\* the branches of the edges.
C5_VirtualBranch ==
    compiled =>
        \A i \in 1..Len(component_instances) :
            is_Storage(component_instances[i]) =>
                LET S  == component_instances[i].name
                    vb == virtual_branch_name(S)
                IN  /\ HasBranch(hub.global_branches, vb)
                    /\ map_get(hub, S, "delta_soc") =
                           [some |-> TRUE, v |-> branch_name_to_index(hub.global_branches, vb)]
                    /\ \A k \in 1..Len(hub.hub_input_branch_indices) :
                           hub.global_branches[hub.hub_input_branch_indices[k] + 1] # vb
                    /\ \A k \in 1..Len(hub.hub_output_branch_indices) :
                           hub.global_branches[hub.hub_output_branch_indices[k] + 1] # vb
                    /\ \A k \in 1..Len(graph.edges) : graph.edges[k].branch_name # vb

\* A declared input or output port of a component of the hub has no entry in
\* the port map.
UnboundPort(h) ==
    \E i \in 1..Len(h.components) :
        \E p \in DictKeys(h.components[i].input_ports)
                    \cup DictKeys(h.components[i].output_ports) :
            <<h.components[i].name, p>> \notin DOMAIN h.port_to_global_branch_map

\* C6: build_system_matrices raises whenever a declared port of a component
\* of the hub has no entry in the port map, and then leaves the hub, X, Y and
\* Z included, as it was; when every declared port has an entry (index 0
\* included) and the hub has branches, it does not raise the binding error.
C6_UnboundPortFails ==
    LET r == build_system_matrices(hub)
    IN  /\ UnboundPort(hub) => r.err # "" /\ r.hub = hub
        /\ ~UnboundPort(hub) /\ hub.global_branches # <<>> => r.err # "ValueError"

C6_FailedOnAssembledHub ==
    /\ UnboundPort(hub)
    /\ hub.X_matrix # NoneMatrix
    /\ hub.Z_matrix # NoneMatrix
    /\ result.err = "ValueError"
    /\ <<"B1", "heat_out">> \in DOMAIN hub.port_to_global_branch_map
    /\ hub.port_to_global_branch_map[<<"B1", "heat_out">>] = 0

\* C7: in an assembled hub, every row of the incidence expansion of every
\* component (one row per column of its characteristic matrix) is the row of
\* a declared port: +1 (input port) or -1 (output port) at the column of the
\* branch the port is bound to, and 0 elsewhere.
C7_SignConvention ==
    assembled =>
        \A i \in 1..Len(hub.components) :
            LET comp == hub.components[i]
                B    == Len(hub.global_branches)
                Ag   == Ag_global(hub, comp, B).Ag
                row(sign, col) == List([j \in 1..B |-> IF j = col + 1 THEN sign ELSE RZero])
            IN  \A r \in 1..get_characteristic_matrix(comp).cols :
                    \/ \E k \in 1..Len(comp.input_ports) :
                          /\ comp.input_ports[k][2] = r - 1
                          /\ Ag.e[r] = row(ROne, map_get(hub, comp.name, comp.input_ports[k][1]).v)
                    \/ \E k \in 1..Len(comp.output_ports) :
                          /\ comp.output_ports[k][2] = r - 1
                          /\ Ag.e[r] = row(RNeg(ROne),
                                           map_get(hub, comp.name, comp.output_ports[k][1]).v)

\* The rows of the characteristic matrices of the components, summed.
RECURSIVE SumK(_, _)
SumK(comps, i) ==
    IF i > Len(comps) THEN 0
    ELSE get_characteristic_matrix(comps[i]).rows + SumK(comps, i + 1)

\* M has r rows of B entries each.
HasShape(M, r, B) ==
    /\ M.rows = r
    /\ M.cols = B
    /\ Len(M.e) = r
    /\ \A i \in 1..r : Len(M.e[i]) = B

\* C8: whenever build_system_matrices succeeds on a hub with m hub-input
\* indices, q hub-output indices, B branches and components with k_i
\* characteristic rows, X is m x B, Y is q x B and Z is sum(k_i) x B.
C8_Shapes ==
    LET r == build_system_matrices(hub)
        B == Len(hub.global_branches)
    IN  r.err = "" =>
            /\ HasShape(r.hub.X_matrix, Len(hub.hub_input_branch_indices), B)
            /\ HasShape(r.hub.Y_matrix, Len(hub.hub_output_branch_indices), B)
            /\ HasShape(r.hub.Z_matrix, SumK(hub.components, 1), B)

C8_AssembledCHP ==
    /\ assembled
    /\ result.err = ""
    /\ Len(hub.components) = 1
    /\ hub.X_matrix.rows = 1
    /\ hub.Y_matrix.rows = 2
    /\ hub.Z_matrix.rows = 2
    /\ hub.Z_matrix.cols = 3

\* C9: for a hub whose matrices are the ones assembled from its present
\* configuration and in which (number of hub inputs) + (number of Z rows)
\* differs from the number of branches,
\* derive_coupling_matrix raises without calling Q.inv() and leaves the
\* analyzer's C_matrix as it was.
C9_NotSquareFails ==
    (/\ assembled
     /\ Len(hub.hub_input_branch_indices) + hub.Z_matrix.rows # Len(hub.global_branches))
    => derive_coupling_matrix(hub, C_matrix) =
           [C |-> C_matrix, err |-> "ValueError", inverted |-> FALSE]

C9_FailedWithStoredC ==
    /\ assembled
    /\ Len(hub.hub_input_branch_indices) + hub.Z_matrix.rows # Len(hub.global_branches)
    /\ C_matrix # NoneMatrix
    /\ result = [err |-> "ValueError", inverted |-> FALSE]

\* The coupling matrix of the two-converter scenario for the efficiencies the
\* components were registered with.
ScenarioC ==
    LET chp    == ComponentNamed(component_instances, "CHP1").parameters
        boiler == ComponentNamed(component_instances, "Boiler1").parameters
    IN  Matrix(3, 2, << <<RNeg(boiler["eta"]), RZero>>,
                        <<RZero, RNeg(chp["eta_w"])>>,
                        <<RZero, RNeg(chp["eta_q"])>> >>)

\* C10: for the two-converter scenario, whatever the values of eta_q, eta_w
\* and eta_boiler and the order of registration, derive_coupling_matrix
\* succeeds and returns C = [[-eta_boiler, 0], [0, -eta_w], [0, -eta_q]];
\* with eta_q = 0.8, eta_w = 0.3, eta_boiler = 0.9 that is
\* [[-0.9, 0], [0, -0.3], [0, -0.8]].
C10_ScenarioCoupling ==
    /\ ScenarioTopology =>
          /\ derive_coupling_matrix(hub, C_matrix) =
                 [C |-> ScenarioC, err |-> "", inverted |-> TRUE]
          /\ C_matrix # NoneMatrix => C_matrix = ScenarioC
    /\ ScenarioNumeric =>
          ScenarioC = Tenths(<< <<-9, 0>>, <<0, -3>>, <<0, -8>> >>)

C10_ScenarioDerived ==
    /\ ScenarioTopology
    /\ result = [err |-> "", inverted |-> TRUE]
    /\ C_matrix = ScenarioC
    /\ ComponentNamed(component_instances, "CHP1").parameters["eta_q"] = Rat(1, 2)

\* The five cases in which a connect call is to fail: an unregistered node, a
\* component source without that output port, a source tagged output, a
\* component destination without that input port, a destination tagged input.
ConnectMustFail(from_node, from_port, to_node, to_port) ==
    \/ from_node \notin {graph.nodes[i].name : i \in 1..Len(graph.nodes)}
    \/ to_node \notin {graph.nodes[i].name : i \in 1..Len(graph.nodes)}
    \/ \E i \in 1..Len(component_instances) :
          /\ component_instances[i].name = from_node
          /\ from_port \notin DictKeys(component_instances[i].output_ports)
    \/ \E i \in 1..Len(io_nodes) : io_nodes[i] = <<from_node, "output">>
    \/ \E i \in 1..Len(component_instances) :
          /\ component_instances[i].name = to_node
          /\ to_port \notin DictKeys(component_instances[i].input_ports)
    \/ \E i \in 1..Len(io_nodes) : io_nodes[i] = <<to_node, "input">>

\* C11: connect(from_node, from_port, to_node, to_port) raises and leaves the
\* nodes and the edges of the graph as they were when either node is
\* unregistered, the source is a component without the output port from_port
\* or a boundary node tagged output, or the destination is a component
\* without the input port to_port or a boundary node tagged input; in every
\* other case it does not raise, leaves the nodes as they were, and the graph
\* then holds the connection (an edge from from_node to to_node with these
\* two ports).
C11_ConnectValidation ==
    \A c \in Connections :
        LET r == connect(self, c[1], c[2], c[3], c[4])
        IN  IF ConnectMustFail(c[1], c[2], c[3], c[4])
            THEN r.err # "" /\ r.self.graph = graph
            ELSE /\ r.err = ""
                 /\ r.self.graph.nodes = graph.nodes
                 /\ \E i \in 1..Len(r.self.graph.edges) :
                       LET e == r.self.graph.edges[i]
                       IN  <<e.u, e.from_port, e.v, e.to_port>> = c

\* A connect call has just been refused although both of its nodes are
\* registered, in a graph that holds a connection.
C11_ConnectRefused ==
    /\ result.err = "ValueError"
    /\ graph.edges # <<>>
    /\ hub = EnergyHub
    /\ Len(graph.nodes) = 2
    /\ \E i \in 1..Len(io_nodes) : io_nodes[i][2] = "output"
    /\ \E c \in Connections :
          /\ {c[1], c[3]} \subseteq {graph.nodes[i].name : i \in 1..Len(graph.nodes)}
          /\ ConnectMustFail(c[1], c[2], c[3], c[4])

\* C12: an add_component or add_io_node call that raises (name already used
\* by a component or a boundary node, unknown component type, invalid
\* io_type, a constructor that fails for a missing required parameter)
\* leaves the builder as it was: the nodes and edges of the graph,
\* component_instances, component_init_args and io_nodes.
C12_FailedAddLeavesBuilder ==
    /\ \A c \in Components :
          LET r == add_component(self, c[1], c[2], c[3])
          IN  r.err # "" => r.self = self
    /\ \A n \in IoNodes :
          LET r == add_io_node(self, n[1], n[2])
          IN  r.err # "" => r.self = self

\* The hub fields load_config writes.
Configuration(h) ==
    <<h.components, h.global_branches, h.port_to_global_branch_map,
      h.hub_input_branch_indices, h.hub_output_branch_indices>>

\* C13: a load_config call that raises (unknown component type, duplicate
\* component name, empty branch list, port mapping of an unknown component or
\* to an unknown branch, unknown hub-input or hub-output branch) leaves the
\* hub's components, global_branches, port_to_global_branch_map,
\* hub_input_branch_indices and hub_output_branch_indices as they were.
C13_FailedLoadLeavesHub ==
    \A config \in Configs :
        LET r == load_config(hub, config, _component_types)
        IN  r.err # "" => Configuration(r.hub) = Configuration(hub)

\* The branch indices in a hub index list.
IndexSet(indices) == {indices[k] : k \in 1..Len(indices)}

\* C14: after build(), no branch index is both in hub_input_branch_indices
\* and in hub_output_branch_indices; a branch is a hub input exactly when it
\* is the branch of an edge whose source is a boundary node tagged input, and
\* a hub output exactly when it is the branch of an edge whose destination is
\* a boundary node tagged output, so that every other branch (the virtual
\* branch of a storage included) is in neither list.
C14_RolePartition ==
    compiled =>
        LET ins  == IndexSet(hub.hub_input_branch_indices)
            outs == IndexSet(hub.hub_output_branch_indices)
            from_input(b) ==
                \E k \in 1..Len(graph.edges) :
                    /\ graph.edges[k].branch_name = b
                    /\ \E n \in 1..Len(io_nodes) : io_nodes[n] = <<graph.edges[k].u, "input">>
            to_output(b) ==
                \E k \in 1..Len(graph.edges) :
                    /\ graph.edges[k].branch_name = b
                    /\ \E n \in 1..Len(io_nodes) : io_nodes[n] = <<graph.edges[k].v, "output">>
        IN  /\ ins \cap outs = {}
            /\ \A i \in 1..Len(hub.global_branches) :
                  /\ (i - 1) \in ins <=> from_input(hub.global_branches[i])
                  /\ (i - 1) \in outs <=> to_output(hub.global_branches[i])

\* The number of rows of Z above the block of the i-th component.
BlockOffset(comps, i) == SumK(SubSeq(comps, 1, i - 1), 1)

\* The <<port name, local index, sign>> of the declared ports of a component.
DeclaredPorts(comp) ==
    {<<comp.input_ports[k][1], comp.input_ports[k][2], 1>> : k \in 1..Len(comp.input_ports)}
    \cup
    {<<comp.output_ports[k][1], comp.output_ports[k][2], -1>> : k \in 1..Len(comp.output_ports)}

\* Every declared port of the component is bound, and no two to one branch.
DistinctlyBound(h, comp) ==
    /\ \A p \in DeclaredPorts(comp) :
          <<comp.name, p[1]>> \in DOMAIN h.port_to_global_branch_map
    /\ \A p, q \in DeclaredPorts(comp) :
          p # q => h.port_to_global_branch_map[<<comp.name, p[1]>>]
                       # h.port_to_global_branch_map[<<comp.name, q[1]>>]

\* The hub is configured as in the test: one CHP with the one electrical port
\* elec_out, bound to the branches 0, 1, 2, hub input 0, hub outputs 1 and 2.
TestCHPHub(h) ==
    /\ Len(h.components) = 1
    /\ h.components[1].cls = "CHPBackPressure"
    /\ h.components[1].elec_ports = <<"elec_out">>
    /\ Len(h.global_branches) = 3
    /\ h.port_to_global_branch_map =
           (<<h.components[1].name, "fuel_in">> :> 0)
           @@ (<<h.components[1].name, "heat_out">> :> 1)
           @@ (<<h.components[1].name, "elec_out">> :> 2)
    /\ h.hub_input_branch_indices = <<0>>
    /\ h.hub_output_branch_indices = <<1, 2>>

RECURSIVE Det(_)
Det(M) ==
    IF M.rows = 0 THEN ROne
    ELSE LET n == M.rows
             minor(j) ==
                 Matrix(n - 1, n - 1,
                        List([i \in 1..(n - 1) |->
                            List([c \in 1..(n - 1) |->
                                M.e[i + 1][IF c < j THEN c ELSE c + 1]])]))
             term(j) ==
                 RMul(IF j % 2 = 1 THEN M.e[1][j] ELSE RNeg(M.e[1][j]), Det(minor(j)))
         IN  RSum(List([j \in 1..n |-> term(j)]), 1, n)

\* The hub holds matrices and X stacked above Z is square.
SquareQ ==
    /\ hub.X_matrix # NoneMatrix
    /\ hub.Y_matrix # NoneMatrix
    /\ hub.Z_matrix # NoneMatrix
    /\ hub.X_matrix.rows + hub.Z_matrix.rows = hub.X_matrix.cols

\* C16: when Q (X stacked above Z) is square and not invertible,
\* derive_coupling_matrix raises, returns no coupling matrix and leaves the
\* analyzer's C_matrix as it was.  When Q is square and invertible it returns
\* C = -Y * W * R, with W the inverse of Q (Q * W = I) and R the negative
\* identity of size m above a k x m block of zeros; C has as many rows as Y
\* and as many columns as X has rows, which for a hub assembled from its
\* present configuration are the numbers of hub outputs and of hub inputs.
C16_SingularFails ==
    SquareQ =>
        LET X == hub.X_matrix
            Y == hub.Y_matrix
            Z == hub.Z_matrix
            m == X.rows
            k == Z.rows
            Q == Matrix(m + k, X.cols, X.e \o Z.e)
            R == Matrix(m + k, m,
                        List([i \in 1..(m + k) |->
                            List([j \in 1..m |-> IF i = j THEN RNeg(ROne) ELSE RZero])]))
            r == derive_coupling_matrix(hub, C_matrix)
        IN  IF Det(Q) = RZero
            THEN r.err # "" /\ r.C = C_matrix
            ELSE /\ r.err = ""
                 /\ \E W \in {inv(Q).m} :
                       /\ MMul(Q, W) = eye(m + k)
                       /\ r.C = MMul(MMul(MNeg(Y), W), R)
                 /\ HasShape(r.C, Y.rows, m)
                 /\ assembled =>
                       HasShape(r.C, Len(hub.hub_output_branch_indices),
                                Len(hub.hub_input_branch_indices))

\* derive_coupling_matrix has just failed on a square Q, after calling
\* Q.inv(), and the analyzer still holds the C of an earlier derivation.
C16_SingularWithStoredC ==
    /\ SquareQ
    /\ assembled
    /\ result = [err |-> "ValueError", inverted |-> TRUE]
    /\ C_matrix # NoneMatrix
    /\ C_matrix.rows >= 1
    /\ C_matrix.cols >= 1

\* The input and the output port names of the component are disjoint, and
\* the local indices of its ports are pairwise distinct and are exactly
\* 0 .. P-1, P the number of columns of its characteristic matrix.
WellFormedPorts(comp) ==
    LET ports == comp.input_ports \o comp.output_ports
        P     == get_characteristic_matrix(comp).cols
    IN  /\ DictKeys(comp.input_ports) \cap DictKeys(comp.output_ports) = {}
        /\ \A i, j \in 1..Len(ports) : i # j => ports[i][2] # ports[j][2]
        /\ {ports[i][2] : i \in 1..Len(ports)} = 0..(P - 1)

\* C17: every component that has been constructed, of any class, a
\* CHPBackPressure with any list of electrical port names included, has
\* disjoint input and output port names and local port indices that are
\* pairwise distinct and are exactly 0 .. P-1.
C17_PortsWellFormed ==
    /\ \A i \in 1..Len(hub.components) : WellFormedPorts(hub.components[i])
    /\ \A i \in 1..Len(component_instances) : WellFormedPorts(component_instances[i])

\* The sequence of indices is strictly increasing.
StrictlyIncreasing(indices) ==
    \A i \in 1..(Len(indices) - 1) : indices[i] < indices[i + 1]

\* C18: after build(), the branch list is strictly increasing in the
\* lexicographic order of the names (so it has no duplicates), the index of
\* a branch is its position in the list, every index in the port map and in
\* the hub-input and hub-output index lists is a position of the list, and
\* the two index lists are strictly increasing.
C18_SortedBranches ==
    compiled =>
        LET bs == hub.global_branches
            B  == Len(bs)
            pm == hub.port_to_global_branch_map
        IN  /\ \A i \in 1..(B - 1) : StrLess(bs[i], bs[i + 1])
            /\ \A i, j \in 1..B : i # j => bs[i] # bs[j]
            /\ \A i \in 1..B : branch_name_to_index(bs, bs[i]) = i - 1
            /\ \A k \in DOMAIN pm : pm[k] \in 0..(B - 1)
            /\ IndexSet(hub.hub_input_branch_indices) \subseteq 0..(B - 1)
            /\ IndexSet(hub.hub_output_branch_indices) \subseteq 0..(B - 1)
            /\ StrictlyIncreasing(hub.hub_input_branch_indices)
            /\ StrictlyIncreasing(hub.hub_output_branch_indices)

\* build() has returned the hub of the two-converter scenario, whose edges
\* the graph does not iterate in the order of their branch names.
C18_BuiltFromUnsortedEdges ==
    /\ compiled
    /\ result.err = ""
    /\ Len(hub.global_branches) = 5
    /\ Len(hub.hub_input_branch_indices) = 2
    /\ Len(hub.hub_output_branch_indices) = 3
    /\ \E i \in 1..(Len(graph.edges) - 1) :
          StrLess(graph.edges[i + 1].branch_name, graph.edges[i].branch_name)

\* C19: in an assembled hub, Z is the stack of the blocks of the components
\* in the order in which they were registered: with k1, ..., kn the numbers
\* of characteristic rows of the components c1, ..., cn in registration
\* order, rows k1+...+k(i-1) to k1+...+ki - 1 of Z are the block of ci and Z
\* has no other rows; the hub build() returns holds the components in the
\* order of the add_component calls.
C19_RegistrationOrder ==
    /\ assembled =>
          LET B == Len(hub.global_branches)
              Z == hub.Z_matrix
          IN  /\ Z.rows = SumK(hub.components, 1)
              /\ \A i \in 1..Len(hub.components) :
                    LET comp  == hub.components[i]
                        off   == BlockOffset(hub.components, i)
                        block == Zg(comp, Ag_global(hub, comp, B).Ag)
                    IN  SubSeq(Z.e, off + 1, off + block.rows) = block.e
    /\ compiled =>
          /\ Len(hub.components) = Len(component_instances)
          /\ \A i \in 1..Len(hub.components) :
                hub.components[i] = component_instances[i]

\* build() has returned the hub of the two-converter scenario with CHP1
\* registered before Boiler1, against the order of the names and of the
\* branches: the first two rows of Z are those of CHP1.
C19_CHPRegisteredFirst ==
    /\ ScenarioTopology
    /\ assembled
    /\ result.err = ""
    /\ component_instances[1].name = "CHP1"
    /\ hub.components[1].name = "CHP1"
    /\ hub.Z_matrix.rows = 3
    /\ hub.Z_matrix.e[3][4] = component_instances[2].parameters["eta"]

\* M has one row per index of the list, and row i holds 1 at the column of
\* the i-th index and 0 in every other column.
IsIndicatorOf(M, indices, B) ==
    /\ HasShape(M, Len(indices), B)
    /\ \A i \in 1..Len(indices) : \A c \in 0..(B - 1) :
          M.e[i][c + 1] = IF c = indices[i] THEN ROne ELSE RZero

\* The names of the branches at the indices of the list, in the order of
\* the list, are strictly increasing in lexicographic order.
InNameOrder(branches, indices) ==
    \A i \in 1..(Len(indices) - 1) :
        StrLess(branches[indices[i] + 1], branches[indices[i + 1] + 1])

C22_TopologyInvariant ==
    LET IsComponent(n) == n \in ComponentNames(component_instances)
        IsBoundary(n) == DictHas(io_nodes, n)
    IN  /\ \A i \in 1..Len(graph.edges) :
              LET e == graph.edges[i]
              IN  /\ HasNode(graph, e.u)
                  /\ HasNode(graph, e.v)
                  /\ \/ /\ IsComponent(e.u)
                        /\ DictHas(ComponentNamed(component_instances, e.u).output_ports,
                                   e.from_port)
                     \/ /\ IsBoundary(e.u)
                        /\ DictGet(io_nodes, e.u) = "input"
                  /\ \/ /\ IsComponent(e.v)
                        /\ DictHas(ComponentNamed(component_instances, e.v).input_ports,
                                   e.to_port)
                     \/ /\ IsBoundary(e.v)
                        /\ DictGet(io_nodes, e.v) = "output"
        /\ \A i \in 1..Len(graph.nodes) :
              LET n == graph.nodes[i]
              IN  /\ IsComponent(n.name) # IsBoundary(n.name)
                  /\ IsComponent(n.name) <=> n.type = "component"
                  /\ IsBoundary(n.name) <=> n.type = "io" /\ n.io_type = DictGet(io_nodes, n.name)
        /\ \A n \in ComponentNames(component_instances) \cup DictKeys(io_nodes) :
              HasNode(graph, n)

\* The graph has an edge out of an input node, the last call was refused, and
\* an add_component call failed earlier (its init args are kept for a name
\* that is not in the graph).
C22_EdgeAmongRefusedCalls ==
    /\ \E i \in 1..Len(graph.edges) :
          /\ DictHas(io_nodes, graph.edges[i].u)
          /\ graph.edges[i].v \in ComponentNames(component_instances)
    /\ result.err = "ValueError"
    /\ \E n \in DictKeys(component_init_args) : ~HasNode(graph, n)

\* The orderings of a set of connect calls, and the builder after the calls of
\* an ordering, made one after the other.
Orderings(calls) ==
    {p \in [1..Cardinality(calls) -> calls] :
        \A i, j \in 1..Cardinality(calls) : p[i] = p[j] => i = j}

RECURSIVE ConnectAll(_, _, _)
ConnectAll(s, p, i) ==
    IF i > Len(p) THEN s
    ELSE ConnectAll(connect(s, p[i][1], p[i][2], p[i][3], p[i][4]).self, p, i + 1)

\* C23: the compiled hub does not depend on the order of the connect calls:
\* with the nodes added as they were, making the successful connect calls in
\* any order and then calling build() gives the hub the client got, with the
\* same branch list, port map, index lists and X, Y, Z.
C23_ConnectOrderIndependent ==
    compiled =>
        \A p \in Orderings(connected) : \A h \in HashSeeds :
            build(ConnectAll([self EXCEPT !.graph.edges = <<>>], p, 1), h)
                = [hub |-> hub, err |-> ""]

\* C24: branch naming is injective for the names the builder accepts: two
\* successful connections that differ in one of source node, source port,
\* destination node, destination port have different branch names, and no
\* edge of the graph has the virtual branch name of a storage.
C24_BranchNamesInjective ==
    /\ \A c, d \in connected :
          c # d => branch_name(c[1], c[2], c[3], c[4]) # branch_name(d[1], d[2], d[3], d[4])
    /\ \A i \in 1..Len(graph.edges) :
          \A j \in 1..Len(component_instances) :
              is_Storage(component_instances[j]) =>
                  graph.edges[i].branch_name
                      # virtual_branch_name(component_instances[j].name)

C26_DeriveNeedsMatrices ==
    LET unset == \/ hub.X_matrix = NoneMatrix
                 \/ hub.Y_matrix = NoneMatrix
                 \/ hub.Z_matrix = NoneMatrix
    IN  /\ unset => derive_coupling_matrix(hub, C_matrix)
                        = [C |-> NoneMatrix, err |-> "ValueError", inverted |-> FALSE]
        /\ C_matrix # NoneMatrix => ~unset

\* A configured hub that has components and branches and no matrices, on which
\* the last call raised, and whose analyzer has no C.
C26_RaisedOnUnassembledHub ==
    /\ hub.components # <<>>
    /\ hub.global_branches # <<>>
    /\ hub.Z_matrix = NoneMatrix
    /\ result = [err |-> "ValueError", inverted |-> FALSE]
    /\ C_matrix = NoneMatrix
    /\ ~assembled

\* The elements of a set of calls, one after the other in some order.
RECURSIVE SeqOf(_)
SeqOf(S) ==
    IF S = {} THEN <<>>
    ELSE LET x == CHOOSE y \in S : TRUE IN <<x>> \o SeqOf(S \ {x})

\* A new builder to which the components and the boundary nodes of this
\* builder are added in their order.
RECURSIVE AddComponents(_, _)
AddComponents(s, i) ==
    IF i > Len(component_instances) THEN s
    ELSE AddComponents(add_component(s, component_instances[i].name,
                                     component_instances[i].cls,
                                     DictGet(component_init_args,
                                             component_instances[i].name)).self,
                       i + 1)

RECURSIVE AddIoNodes(_, _)
AddIoNodes(s, i) ==
    IF i > Len(io_nodes) THEN s
    ELSE AddIoNodes(add_io_node(s, io_nodes[i][1], io_nodes[i][2]).self, i + 1)

\* C27: build() calls that raise (no edges, a port not bound) return no hub
\* and leave no trace in the builder: in the two-converter scenario, as long
\* as no connection was overwritten, the builder is the one that the
\* add_component, add_io_node and connect calls that succeeded make of a new
\* builder without any build() call, so build() gives what it gives for that
\* builder; the hub the client holds for the builder as it is now is the hub
\* of that builder; and once the five connections of the example are made
\* build() succeeds.
C27_AsIfNeverFailed ==
    connected \subseteq ScenarioConnections =>
        LET never == ConnectAll(AddIoNodes(AddComponents(GraphEnergyHub, 1), 1),
                                SeqOf(connected), 1)
            Edges(g) == {g.edges[i] : i \in 1..Len(g.edges)}
        IN  /\ graph.nodes = never.graph.nodes
            /\ Edges(graph) = Edges(never.graph)
            /\ component_instances = never.component_instances
            /\ component_init_args = never.component_init_args
            /\ io_nodes = never.io_nodes
            /\ \A h \in HashSeeds : build(self, h) = build(never, h)
            /\ compiled => \A h \in HashSeeds : build(never, h) = [hub |-> hub, err |-> ""]
            /\ connected = ScenarioConnections => \A h \in HashSeeds : build(self, h).err = ""

\* The last call raised, build() raises for the builder as it is (all nodes
\* of the example and four of its five connections), and the client has got
\* no hub yet.
C27_FailedBuildBeforeLastConnection ==
    /\ result.err = "ValueError"
    /\ Len(graph.nodes) = 5
    /\ Cardinality(connected) = 4
    /\ connected \subseteq ScenarioConnections
    /\ \A h \in HashSeeds : build(self, h).err # ""
    /\ hub = EnergyHub

\* The hub is a series chain: two boilers, the first between the hub input
\* branch and a middle branch, the second between the middle branch and the
\* hub output branch.
SeriesChain(first, second) ==
    /\ Len(hub.components) = 2
    /\ {first, second} = {1, 2}
    /\ hub.components[first].cls = "Boiler"
    /\ hub.components[second].cls = "Boiler"
    /\ Len(hub.global_branches) = 3
    /\ Len(hub.hub_input_branch_indices) = 1
    /\ Len(hub.hub_output_branch_indices) = 1
    /\ LET x == hub.hub_input_branch_indices[1]
           z == hub.hub_output_branch_indices[1]
           y == CHOOSE k \in 0..2 : k \notin {x, z}
           bound(c, port, k) ==
               map_get(hub, hub.components[c].name, port) = [some |-> TRUE, v |-> k]
       IN  /\ x # z
           /\ bound(first, "fuel_in", x)
           /\ bound(first, "heat_out", y)
           /\ bound(second, "fuel_in", y)
           /\ bound(second, "heat_out", z)

\* The coupling matrix derived for the hub input -> Boiler(eta) -> output.
SingleConverterC(eta) ==
    LET config == Config(<<ConfigBoilerNamed("B1", eta)>>, <<chars["a"], chars["b"]>>,
                         << <<"B1", "fuel_in", chars["a"]>>, <<"B1", "heat_out", chars["b"]>> >>,
                         <<chars["a"]>>, <<chars["b"]>>)
        single == build_system_matrices(load_config(EnergyHub, config, _component_types).hub).hub
    IN  derive_coupling_matrix(single, NoneMatrix).C

\* C28: for a hub that is a chain input -> converter 1 -> converter 2 ->
\* output of two boilers with gains g1 and g2, whose matrices are assembled,
\* derive_coupling_matrix succeeds and the 1x1 coupling matrix is the product
\* of the coupling matrices derived for the two single-converter hubs.
C28_SeriesComposition ==
    \A first, second \in 1..2 :
        (assembled /\ SeriesChain(first, second)) =>
            derive_coupling_matrix(hub, C_matrix)
                = [C |-> MMul(SingleConverterC(hub.components[second].parameters["eta"]),
                              SingleConverterC(hub.components[first].parameters["eta"])),
                   err |-> "", inverted |-> TRUE]

\* The coupling matrix of a chain whose second boiler was registered first
\* has been derived: it is 1x1 and is the product of the two gains.
C28_ChainDerived ==
    /\ assembled
    /\ SeriesChain(2, 1)
    /\ result = [err |-> "", inverted |-> TRUE]
    /\ C_matrix = Matrix(1, 1, << <<RMul(hub.components[1].parameters["eta"],
                                        hub.components[2].parameters["eta"])>> >>)

\* C29: for the hub build() returned, solve_economic_dispatch groups every
\* branch of an edge into an output node under the name of that node, and
\* under the name of an output node nothing but the branches of the edges
\* into it, without raising; the node names may contain underscores.
C29_GroupedByDestination ==
    compiled =>
        LET grouped == GroupLoop(branches_at(hub, hub.hub_output_branch_indices), <<>>, 1)
            d       == grouped.d
            into(n) == {graph.edges[i].branch_name :
                           i \in {k \in 1..Len(graph.edges) : graph.edges[k].v = n}}
        IN  /\ grouped.err = ""
            /\ \A n \in {io_nodes[i][1] : i \in {k \in 1..Len(io_nodes) :
                                                   io_nodes[k][2] = "output"}} :
                  into(n) # {} =>
                      /\ DictHas(d, chars[n])
                      /\ {DictGet(d, chars[n])[j] : j \in 1..Len(DictGet(d, chars[n]))}
                             = into(n)
            /\ \A k \in 1..Len(d) :
                  \E i \in 1..Len(io_nodes) :
                      io_nodes[i][2] = "output" /\ chars[io_nodes[i][1]] = d[k][1]

\* C30: for the hub build() returned for input node G -> Boiler B1 (eta > 0)
\* -> output node L and a load greater than 0 at L, some assignment of flows
\* that are not negative satisfies Z V = 0 and makes the flow of the branch
\* into L at least the load.
C30_DispatchSatisfiable ==
    (/\ compiled
     /\ connected = {<<"G", "out", "B1", "fuel_in">>, <<"B1", "heat_out", "L", "in">>}) =>
        \A time_series_data \in DispatchData :
            LET load == DictGet(time_series_data.load_profiles, chars["L"])[1]
            IN  \E V \in [BRANCHES(hub) -> FlowValues(hub, time_series_data)] :
                    /\ \A b \in BRANCHES(hub) : RLeq(RZero, V[b])
                    /\ energy_balance(hub, V)
                    /\ RLeq(RZero, hub.components[1].parameters["eta"])
                    /\ RLeq(load, V[branch_name("B1", "heat_out", "L", "in")])

=============================================================================
